---- MODULE Spec2Model ----
(***************************************************************************)
(* A model of async_eval: the REPL-style evaluator AEvaluator              *)
(* (evaluator.py) with its tree rewriter NodeTransformer and its Session   *)
(* (utils.py), and the execution engine ExecutionContext._evaluate with    *)
(* the exit signal EvaluatorExit (types.py).                               *)
(*                                                                         *)
(* A snippet is the Python text itself; Strip and Parse are tables over    *)
(* the texts of Codes.  The rewritten tree is executed by an interpreter   *)
(* of the statement kinds the snippets use, with Python's function-scope   *)
(* rules (a name bound anywhere in the wrapper function is a local).       *)
(***************************************************************************)
EXTENDS Integers, Sequences, FiniteSets, TLC

\* Bound on the executions (uuid4 draws) of one behaviour.
MaxCalls == 3

\* Bound on the executions of the engine of one behaviour.
MaxExecutions == 3

\* Bound on the snippets one behaviour submits to the two rewriters.
MaxRewrites == 2

\* the calls of aeval that are suspended at an await of their snippet
MaxSuspended == 2

(***************************************************************************)
(* Python values.                                                          *)
(***************************************************************************)
IntV(n) == [t |-> "int", n |-> n]
NoneV == [t |-> "None", n |-> 0]
\* typing.NoReturn, the object aeval returns for an empty result
NoReturn == [t |-> "typing.NoReturn", n |-> 0]
\* the module object `typing` that _evaluate puts into the locals
TypingModule == [t |-> "module typing", n |-> 0]
\* the value exec() stores under "__builtins__" in the globals it is given
BuiltinsModule == [t |-> "module builtins", n |-> 0]
\* the function object created by the wrapper `async def <name>(...)`
FunctionV(name) == [t |-> "function", n |-> 0, name |-> name]
TupleV(elts) == [t |-> "tuple", n |-> 0, elts |-> elts]
\* a dict of variables, as returned by globals() and locals()
DictV(d) == [t |-> "dict", n |-> 0, d |-> d]
ListV(elts) == [t |-> "list", n |-> 0, elts |-> elts]

\* bool(v) for the values above
Truthy(v) ==
    CASE v.t = "int" -> v.n # 0
      [] v.t = "None" -> FALSE
      [] v.t \in {"tuple", "list"} -> Len(v.elts) > 0
      [] v.t = "dict" -> DOMAIN v.d # {}
      [] OTHER -> TRUE

(***************************************************************************)
(* Variable scopes: dict[str, Any] as functions from names to values.      *)
(***************************************************************************)
EmptyScope == [k \in {} |-> NoneV]

\* dict.update(other) / the result of {**d, **other}: other wins
Update(d, other) ==
    [k \in DOMAIN d \cup DOMAIN other |-> IF k \in DOMAIN other THEN other[k] ELSE d[k]]

\* d[key] = value
Put(d, key, value) ==
    [k \in DOMAIN d \cup {key} |-> IF k = key THEN value ELSE d[k]]

(***************************************************************************)
(* Errors: the exception type and the place that raised it.                *)
(***************************************************************************)
Exc(type, origin) == [type |-> type, origin |-> origin]
NoExc == Exc("", "")

(***************************************************************************)
(* Syntax trees (the nodes of module ast the snippets use).                *)
(***************************************************************************)
Constant(v) == [k |-> "Constant", value |-> v]
Name(id, ctx) == [k |-> "Name", id |-> id, ctx |-> ctx]
BinOp(left, op, right) == [k |-> "BinOp", left |-> left, op |-> op, right |-> right]
NamedExpr(target, value) == [k |-> "NamedExpr", target |-> target, value |-> value]
Tuple(elts, ctx) == [k |-> "Tuple", elts |-> elts, ctx |-> ctx]
List(elts, ctx) == [k |-> "List", elts |-> elts, ctx |-> ctx]
\* a call func(*args) of a name: globals(), locals(), ValueError()
Call(func, args) == [k |-> "Call", func |-> func, args |-> args]

Expr(value) == [k |-> "Expr", value |-> value]
Assign(targets, value) == [k |-> "Assign", targets |-> targets, value |-> value]
\* `target op= value`
AugAssign(target, op, value) == [k |-> "AugAssign", target |-> target, op |-> op, value |-> value]
Pass == [k |-> "Pass"]
Raise(exc) == [k |-> "Raise", exc |-> exc]
Delete(targets) == [k |-> "Delete", targets |-> targets]
Return(value) == [k |-> "Return", value |-> value]
\* the value of a bare `return`, and exit_node(result=None): no expression
NoNode == [k |-> "None"]
\* `def name(): body`
FunctionDef(name, body) == [k |-> "FunctionDef", name |-> name, body |-> body]
If(test, body, orelse) == [k |-> "If", test |-> test, body |-> body, orelse |-> orelse]
For(target, iter, body, orelse) ==
    [k |-> "For", target |-> target, iter |-> iter, body |-> body, orelse |-> orelse]
\* `except <type>:` with its body
ExceptHandler(type, body) == [k |-> "ExceptHandler", type |-> type, body |-> body]
Try(body, handlers, orelse, finalbody) ==
    [k |-> "Try", body |-> body, handlers |-> handlers, orelse |-> orelse,
     finalbody |-> finalbody]
Module(body) == [k |-> "Module", body |-> body]
\* `await <value>`
Await(value) == [k |-> "Await", value |-> value]
\* `import <name> as <asname>`, asname "" when there is none
alias(name, asname) == [name |-> name, asname |-> asname]
Import(names) == [k |-> "Import", names |-> names]
\* a statement followed by `;` and the next statement on the same line
Joined(s) == [f \in DOMAIN s \cup {"joined"} |-> IF f = "joined" THEN TRUE ELSE s[f]]

(***************************************************************************)
(* The snippets submitted to the evaluator, as Python text.                *)
(***************************************************************************)
AssignThenRaise == "x = 2\nraise ValueError()"
TryFinally == "try:\n    raise ValueError()\nfinally:\n    1"

Codes == {"", "   ", "x = 1", "x", "None", "pass", "1 + 1", AssignThenRaise, TryFinally}

\* snippets that end in a compound statement or a multi-target assignment
MultiAssign == "a = b = 7"
ForLoop == "for x in [1, 2, 3]:\n    pass"
ForEmpty == "for x in []:\n    pass"
ForTuple == "for a, b in [(1, 2)]:\n    pass"
IfTrue == "if 1:\n    5"
IfFalse == "if 0:\n    5"
IfElseTrue == "if 1:\n    5\nelse:\n    6"
IfElseFalse == "if 0:\n    5\nelse:\n    6"
TryBroad == "try:\n    1\nexcept Exception:\n    2"
TryNarrow == "try:\n    1\nexcept KeyError:\n    2"
TryCaught == "try:\n    raise ValueError()\nexcept ValueError:\n    2"
TryUncaught == "try:\n    raise ValueError()\nexcept KeyError:\n    2"

IfCodes == {IfTrue, IfFalse, IfElseTrue, IfElseFalse}
ForCodes == {ForLoop, ForEmpty, ForTuple}
TryCodes == {TryBroad, TryNarrow, TryCaught, TryUncaught, TryFinally}

\* the snippets submitted to both rewriters
RewriteCodes == {"pass", "x = 1", MultiAssign} \cup IfCodes \cup ForCodes \cup TryCodes

\* the snippets submitted to the execution engine of types.py
RaiseValueError == "raise ValueError()"
AwaitThenValue == "await sleep(0)\n1 + 1"
AwaitThenRaise == "await sleep(0)\nraise ValueError()"

EngineCodes == {"1 + 1", "pass", RaiseValueError, AwaitThenValue, AwaitThenRaise}

\* snippets that are suspended at an await and then end: one binds nothing,
\* one rebinds x
\* terminal assignments whose right-hand side counts its evaluations in n
CountedAssign == "n = 0\na = (n := n + 1)"
CountedMultiAssign == "n = 0\na = b = (n := n + 1)"
CountedCodes == {CountedAssign, CountedMultiAssign}

\* a snippet that unbinds a name
DelX == "del x"

AwaitThenPass == "await sleep(0)\npass"
AwaitThenRebind == "await sleep(0)\nx = 2"
SuspendingCodes == {AwaitThenPass, AwaitThenRebind}

\* snippets that end in an assignment or an import, after another statement
\* or nested in a conditional
TwoAssigns == "y = 1\nx = 2"
JoinedAssigns == "x = 1; x = 2"
NestedAssign == "if 1:\n    x = 1"
UnnestedAssign == "a = 0; b = 0\nif 0:\n    x = 1"
AssignThenImport == "x = 1\nimport os"
NestedImport == "if 1:\n    import os"

OrderCodes ==
    {TwoAssigns, JoinedAssigns, NestedAssign, UnnestedAssign, AssignThenImport, NestedImport}

\* snippets that end in an augmented assignment
AugOnly == "x += 1"
AssignThenAug == "x = 2\nx += 1"

AugCodes == {AugOnly, AssignThenAug}

\* snippets that hold a return statement
RetFive == "return 5"
RetBare == "return"
RetTuple == "return (1, 2)"
RetEarly == "x = 1\nif x:\n    return x\nx = 2\nx"
RetNested == "def f():\n    return 1\nreturn f()"
RetInTry == "try:\n    return 1\nexcept Exception:\n    pass\n2"

ReturnCodes == {RetFive, RetBare, RetTuple, RetEarly, RetNested, RetInTry}

\* snippets that bind a name and end in a statement the rewriter of utils.py
\* has no handler for, or in a conditional that takes no branch
AssignThenPass == "x = 1\npass"
AssignThenIfFalse == "x = 1\nif 0:\n    x = 2"

UnhandledCodes == {"pass", IfFalse, AssignThenPass, AssignThenIfFalse, AssignThenImport}

\* str.strip(): the texts of Codes carry no surrounding whitespace, except
\* the whitespace-only text, which strips to the empty text
Strip(code) == IF code = "   " THEN "" ELSE code

\* `not code` for a str
IsEmptyStr(code) == code = ""

\* ast.parse(code): the Module of each text of Codes (the empty text parses
\* to a Module with an empty body)
Parse(code) ==
    CASE code = "x = 1" -> Module(<<Assign(<<Name("x", "Store")>>, Constant(IntV(1)))>>)
      [] code = "x" -> Module(<<Expr(Name("x", "Load"))>>)
      [] code = "None" -> Module(<<Expr(Constant(NoneV))>>)
      [] code = "pass" -> Module(<<Pass>>)
      [] code = "1 + 1" ->
            Module(<<Expr(BinOp(Constant(IntV(1)), "Add", Constant(IntV(1))))>>)
      [] code = AssignThenRaise ->
            Module(<<Assign(<<Name("x", "Store")>>, Constant(IntV(2))),
                     Raise(Call("ValueError", <<>>))>>)
      [] code = TryFinally ->
            Module(<<Try(<<Raise(Call("ValueError", <<>>))>>, <<>>, <<>>,
                         <<Expr(Constant(IntV(1)))>>)>>)
      [] code = RaiseValueError -> Module(<<Raise(Call("ValueError", <<>>))>>)
      [] code = AwaitThenValue ->
            Module(<<Expr(Await(Call("sleep", <<Constant(IntV(0))>>))),
                     Expr(BinOp(Constant(IntV(1)), "Add", Constant(IntV(1))))>>)
      [] code = AwaitThenRaise ->
            Module(<<Expr(Await(Call("sleep", <<Constant(IntV(0))>>))),
                     Raise(Call("ValueError", <<>>))>>)
      [] code = CountedAssign ->
            Module(<<Assign(<<Name("n", "Store")>>, Constant(IntV(0))),
                     Assign(<<Name("a", "Store")>>,
                            NamedExpr(Name("n", "Store"),
                                      BinOp(Name("n", "Load"), "Add", Constant(IntV(1)))))>>)
      [] code = CountedMultiAssign ->
            Module(<<Assign(<<Name("n", "Store")>>, Constant(IntV(0))),
                     Assign(<<Name("a", "Store"), Name("b", "Store")>>,
                            NamedExpr(Name("n", "Store"),
                                      BinOp(Name("n", "Load"), "Add", Constant(IntV(1)))))>>)
      [] code = DelX -> Module(<<Delete(<<Name("x", "Del")>>)>>)
      [] code = AwaitThenPass ->
            Module(<<Expr(Await(Call("sleep", <<Constant(IntV(0))>>))), Pass>>)
      [] code = AwaitThenRebind ->
            Module(<<Expr(Await(Call("sleep", <<Constant(IntV(0))>>))),
                     Assign(<<Name("x", "Store")>>, Constant(IntV(2)))>>)
      [] code = MultiAssign ->
            Module(<<Assign(<<Name("a", "Store"), Name("b", "Store")>>, Constant(IntV(7)))>>)
      [] code = ForLoop ->
            Module(<<For(Name("x", "Store"),
                         List(<<Constant(IntV(1)), Constant(IntV(2)), Constant(IntV(3))>>,
                              "Load"),
                         <<Pass>>, <<>>)>>)
      [] code = ForEmpty ->
            Module(<<For(Name("x", "Store"), List(<<>>, "Load"), <<Pass>>, <<>>)>>)
      [] code = ForTuple ->
            Module(<<For(Tuple(<<Name("a", "Store"), Name("b", "Store")>>, "Store"),
                         List(<<Tuple(<<Constant(IntV(1)), Constant(IntV(2))>>, "Load")>>,
                              "Load"),
                         <<Pass>>, <<>>)>>)
      [] code = IfTrue ->
            Module(<<If(Constant(IntV(1)), <<Expr(Constant(IntV(5)))>>, <<>>)>>)
      [] code = IfFalse ->
            Module(<<If(Constant(IntV(0)), <<Expr(Constant(IntV(5)))>>, <<>>)>>)
      [] code = IfElseTrue ->
            Module(<<If(Constant(IntV(1)), <<Expr(Constant(IntV(5)))>>,
                        <<Expr(Constant(IntV(6)))>>)>>)
      [] code = IfElseFalse ->
            Module(<<If(Constant(IntV(0)), <<Expr(Constant(IntV(5)))>>,
                        <<Expr(Constant(IntV(6)))>>)>>)
      [] code = TryBroad ->
            Module(<<Try(<<Expr(Constant(IntV(1)))>>,
                         <<ExceptHandler("Exception", <<Expr(Constant(IntV(2)))>>)>>,
                         <<>>, <<>>)>>)
      [] code = TryNarrow ->
            Module(<<Try(<<Expr(Constant(IntV(1)))>>,
                         <<ExceptHandler("KeyError", <<Expr(Constant(IntV(2)))>>)>>,
                         <<>>, <<>>)>>)
      [] code = TryCaught ->
            Module(<<Try(<<Raise(Call("ValueError", <<>>))>>,
                         <<ExceptHandler("ValueError", <<Expr(Constant(IntV(2)))>>)>>,
                         <<>>, <<>>)>>)
      [] code = TryUncaught ->
            Module(<<Try(<<Raise(Call("ValueError", <<>>))>>,
                         <<ExceptHandler("KeyError", <<Expr(Constant(IntV(2)))>>)>>,
                         <<>>, <<>>)>>)
      [] code = TwoAssigns ->
            Module(<<Assign(<<Name("y", "Store")>>, Constant(IntV(1))),
                     Assign(<<Name("x", "Store")>>, Constant(IntV(2)))>>)
      [] code = JoinedAssigns ->
            Module(<<Joined(Assign(<<Name("x", "Store")>>, Constant(IntV(1)))),
                     Assign(<<Name("x", "Store")>>, Constant(IntV(2)))>>)
      [] code = NestedAssign ->
            Module(<<If(Constant(IntV(1)),
                        <<Assign(<<Name("x", "Store")>>, Constant(IntV(1)))>>, <<>>)>>)
      [] code = UnnestedAssign ->
            Module(<<Joined(Assign(<<Name("a", "Store")>>, Constant(IntV(0)))),
                     Assign(<<Name("b", "Store")>>, Constant(IntV(0))),
                     If(Constant(IntV(0)),
                        <<Assign(<<Name("x", "Store")>>, Constant(IntV(1)))>>, <<>>)>>)
      [] code = AssignThenImport ->
            Module(<<Assign(<<Name("x", "Store")>>, Constant(IntV(1))),
                     Import(<<alias("os", "")>>)>>)
      [] code = NestedImport ->
            Module(<<If(Constant(IntV(1)), <<Import(<<alias("os", "")>>)>>, <<>>)>>)
      [] code = AugOnly ->
            Module(<<AugAssign(Name("x", "Store"), "Add", Constant(IntV(1)))>>)
      [] code = AssignThenAug ->
            Module(<<Assign(<<Name("x", "Store")>>, Constant(IntV(2))),
                     AugAssign(Name("x", "Store"), "Add", Constant(IntV(1)))>>)
      [] code = RetFive -> Module(<<Return(Constant(IntV(5)))>>)
      [] code = RetBare -> Module(<<Return(NoNode)>>)
      [] code = RetTuple ->
            Module(<<Return(Tuple(<<Constant(IntV(1)), Constant(IntV(2))>>, "Load"))>>)
      [] code = RetEarly ->
            Module(<<Assign(<<Name("x", "Store")>>, Constant(IntV(1))),
                     If(Name("x", "Load"), <<Return(Name("x", "Load"))>>, <<>>),
                     Assign(<<Name("x", "Store")>>, Constant(IntV(2))),
                     Expr(Name("x", "Load"))>>)
      [] code = RetNested ->
            Module(<<FunctionDef("f", <<Return(Constant(IntV(1)))>>),
                     Return(Call("f", <<>>))>>)
      [] code = RetInTry ->
            Module(<<Try(<<Return(Constant(IntV(1)))>>,
                         <<ExceptHandler("Exception", <<Pass>>)>>, <<>>, <<>>),
                     Expr(Constant(IntV(2)))>>)
      [] code = AssignThenPass ->
            Module(<<Assign(<<Name("x", "Store")>>, Constant(IntV(1))), Pass>>)
      [] code = AssignThenIfFalse ->
            Module(<<Assign(<<Name("x", "Store")>>, Constant(IntV(1))),
                     If(Constant(IntV(0)),
                        <<Assign(<<Name("x", "Store")>>, Constant(IntV(2)))>>, <<>>)>>)
      [] OTHER -> Module(<<>>)

(***************************************************************************)
(* utils.py: uniquify_name and the tree rewriter NodeTransformer.          *)
(***************************************************************************)
\* one underscore put before a name that is taken
uniquify_once(name, namespace) == IF name \in namespace THEN "_" \o name ELSE name

RECURSIVE uniquify_name(_, _)
uniquify_name(name, namespace) ==
    IF name \in namespace THEN uniquify_name("_" \o name, namespace) ELSE name

\* seq[-1]
Last(seq) == seq[Len(seq)]

\* seq[-1] = x
SetLast(seq, x) == [seq EXCEPT ![Len(seq)] = x]

\* NodeTransformer.parse_expr("globals()") and parse_expr("locals()")
parse_expr(source) ==
    CASE source = "globals()" -> Call("globals", <<>>)
      [] source = "locals()" -> Call("locals", <<>>)

\* hasattr(value, "ctx")
HasCtx(value) == value.k \in {"Name", "Tuple", "List"}

change_ctx(node) == [node EXCEPT !.ctx = "Load"]

\* Return(value) becomes Return((value, globals(), locals())), the value
\* forced into Load context
handle_Return(node) ==
    LET value == node.value
        loaded ==
            IF HasCtx(value) /\ value.ctx # "Load"
            THEN IF value.k = "Tuple"
                 THEN [value EXCEPT !.elts = [i \in 1..Len(value.elts) |->
                                                  change_ctx(value.elts[i])],
                                    !.ctx = "Load"]
                 ELSE [value EXCEPT !.ctx = "Load"]
            ELSE value
    IN Return(Tuple(<<loaded, parse_expr("globals()"), parse_expr("locals()")>>, "Load"))

handle_Expr(node) == handle_Return(Return(node.value))

handle_Assign(node) ==
    LET value ==
            IF Len(node.targets) > 1
            THEN Tuple([i \in 1..Len(node.targets) |->
                            NamedExpr(node.targets[i], node.value)], "Load")
            ELSE NamedExpr(node.targets[1], node.value)
    IN handle_Return(Return(value))

\* ast.copy_location(new_node, old_node) copies the position of old_node
\* to new_node and returns new_node
copy_location(new_node, old_node) == new_node

\* `target op= value` as an assignment to target of what copy_location
\* returns for (node.value, BinOp(target, op, value))
handle_AugAssign(node) ==
    handle_Assign(Assign(<<node.target>>,
                         copy_location(node.value,
                                       BinOp(change_ctx(node.target), node.op, node.value))))

RECURSIVE patch_statement(_)
\* body[-1] = self.patch_statement(body[-1])
PatchLast(body) == SetLast(body, patch_statement(Last(body)))

handle_Try(node) ==
    IF node.finalbody # <<>>
    THEN [node EXCEPT !.finalbody = PatchLast(@)]
    ELSE IF node.orelse # <<>>
    THEN [node EXCEPT !.orelse = PatchLast(@)]
    ELSE [node EXCEPT !.body = PatchLast(@),
                      !.handlers = [i \in 1..Len(@) |-> [@[i] EXCEPT !.body = PatchLast(@)]]]

\* a rewrite of the conditional that leaves its else branch as it is
handle_If_body_only(node) == [node EXCEPT !.body = PatchLast(@)]

handle_If(node) ==
    [node EXCEPT !.body = PatchLast(@),
                 !.orelse = IF @ # <<>> THEN PatchLast(@) ELSE @]

\* a loop without an else clause gets one that returns the loop target
handle_For(node) ==
    IF node.orelse # <<>>
    THEN [node EXCEPT !.orelse = PatchLast(@)]
    ELSE [node EXCEPT !.orelse = <<handle_Return(Return(node.target))>>]

\* the statement kinds without a handler are returned as they are
patch_statement(node) ==
    CASE node.k = "If" -> handle_If(node)
      [] node.k = "For" -> handle_For(node)
      [] node.k = "Assign" -> handle_Assign(node)
      [] node.k = "AugAssign" -> handle_AugAssign(node)
      [] node.k = "Expr" -> handle_Expr(node)
      [] node.k = "Try" -> handle_Try(node)
      [] OTHER -> node

\* every Return outside a function definition is rewritten: a function
\* definition in a list of statements is kept as it is
RECURSIVE patch_returns(_)
PatchReturnsIn(nodes) ==
    [i \in 1..Len(nodes) |->
        IF nodes[i].k = "FunctionDef" THEN nodes[i] ELSE patch_returns(nodes[i])]

patch_returns(node) ==
    CASE node.k = "Return" -> handle_Return(node)
      [] node.k \in {"Module", "ExceptHandler"} ->
            [node EXCEPT !.body = PatchReturnsIn(@)]
      [] node.k \in {"If", "For"} ->
            [node EXCEPT !.body = PatchReturnsIn(@), !.orelse = PatchReturnsIn(@)]
      [] node.k = "Try" ->
            [node EXCEPT !.body = PatchReturnsIn(@), !.handlers = PatchReturnsIn(@),
                         !.orelse = PatchReturnsIn(@), !.finalbody = PatchReturnsIn(@)]
      [] OTHER -> node

\* Return((globals(), locals())): the exit point of an empty result
EmptyExit == Return(Tuple(<<Call("globals", <<>>), Call("locals", <<>>)>>, "Load"))

\* defined for a module with a body; module.body[-1] of an empty body is
\* the IndexError that _evaluate raises
transform_module(module) ==
    LET patched == patch_returns(module)
        body == SetLast(patched.body, patch_statement(Last(patched.body)))
    IN [patched EXCEPT !.body = Append(body, EmptyExit)]

(***************************************************************************)
(* Execution of compiled code.  env gives the globals, the builtin         *)
(* namespace and the kind of code block: in a function a name bound        *)
(* anywhere in the body (or a parameter) is a fast local and every other   *)
(* name is looked up in the globals and then the builtins; in module code  *)
(* run by exec(code, globals, locals) every name is looked up in the       *)
(* locals, the globals and the builtins, and bound in the locals.          *)
(***************************************************************************)
BuiltinV(name) == [t |-> "builtin", n |-> 0, name |-> name]
\* the coroutine a call of asyncio.sleep gives
CoroutineV(name) == [t |-> "coroutine", n |-> 0, name |-> name]
\* an exception instance
ExceptionV(exc) == [t |-> "exception", n |-> 0, exc |-> exc]

\* a class object
ClassV(name) == [t |-> "class", n |-> 0, name |-> name]
\* the module object an import statement binds
ModuleV(name) == [t |-> "module", n |-> 0, name |-> name]
\* the function object a `def` statement of a snippet creates
DefV(name, body) == [t |-> "def", n |-> 0, name |-> name, body |-> body]
\* the name an alias binds: name.asname or name.name
BoundName(a) == IF a.asname # "" THEN a.asname ELSE a.name

\* types.py, EvaluatorExit(globals, locals, *result): the exit signal, an
\* Exception; result is the tuple of the remaining arguments
EvaluatorExit(globals, locals, result) ==
    [type |-> "EvaluatorExit", origin |-> "snippet",
     globals |-> globals, locals |-> locals,
     empty_result |-> result = <<>>,
     result |-> IF result # <<>> THEN result[1] ELSE NoneV]

\* the builtin namespace of the interpreter (the names the snippets use)
Builtins == [name \in {"globals", "locals", "ValueError"} |-> BuiltinV(name)]

FunctionEnv(globals, builtins, fast) ==
    [block |-> "function", globals |-> globals, builtins |-> builtins, fast |-> fast]

ModuleEnv(globals, builtins) ==
    [block |-> "module", globals |-> globals, builtins |-> builtins, fast |-> {}]

\* the names an expression binds (the targets of its walrus expressions)
RECURSIVE ExprStores(_)
ExprStores(e) ==
    CASE e.k = "NamedExpr" -> {e.target.id} \cup ExprStores(e.value)
      [] e.k \in {"Tuple", "List"} -> UNION {ExprStores(e.elts[i]) : i \in 1..Len(e.elts)}
      [] e.k = "BinOp" -> ExprStores(e.left) \cup ExprStores(e.right)
      [] e.k = "Call" -> UNION {ExprStores(e.args[i]) : i \in 1..Len(e.args)}
      [] OTHER -> {}

\* the names a loop target binds
TargetNames(target) ==
    IF target.k = "Name" THEN {target.id}
    ELSE {target.elts[i].id : i \in 1..Len(target.elts)}

\* the names a statement binds
RECURSIVE StmtStores(_)
StoredNames(body) == UNION {StmtStores(body[i]) : i \in 1..Len(body)}

StmtStores(s) ==
    CASE s.k = "Assign" ->
            {s.targets[i].id : i \in 1..Len(s.targets)} \cup ExprStores(s.value)
      [] s.k \in {"Expr", "Return"} -> ExprStores(s.value)
      [] s.k = "Raise" -> ExprStores(s.exc)
      [] s.k = "If" -> ExprStores(s.test) \cup StoredNames(s.body) \cup StoredNames(s.orelse)
      [] s.k = "For" ->
            TargetNames(s.target) \cup ExprStores(s.iter)
            \cup StoredNames(s.body) \cup StoredNames(s.orelse)
      [] s.k = "Try" ->
            StoredNames(s.body) \cup StoredNames(s.orelse) \cup StoredNames(s.finalbody)
            \cup UNION {StoredNames(s.handlers[i].body) : i \in 1..Len(s.handlers)}
      [] s.k = "Import" -> {BoundName(s.names[i]) : i \in 1..Len(s.names)}
      [] s.k = "FunctionDef" -> {s.name}
      [] s.k = "Delete" -> {s.targets[i].id : i \in 1..Len(s.targets)}
      [] OTHER -> {}

\* the result of evaluating an expression: its value or the error raised,
\* and the locals after it
Evaluated(v, exc, loc) == [v |-> v, exc |-> exc, loc |-> loc]

LoadName(id, env, loc) ==
    IF env.block = "function" /\ id \in env.fast
    THEN IF id \in DOMAIN loc
         THEN Evaluated(loc[id], NoExc, loc)
         ELSE Evaluated(NoneV, Exc("UnboundLocalError", "snippet"), loc)
    ELSE IF env.block = "module" /\ id \in DOMAIN loc
         THEN Evaluated(loc[id], NoExc, loc)
    ELSE IF id \in DOMAIN env.globals
         THEN Evaluated(env.globals[id], NoExc, loc)
    ELSE IF id \in DOMAIN env.builtins
         THEN Evaluated(env.builtins[id], NoExc, loc)
    ELSE Evaluated(NoneV, Exc("NameError", "snippet"), loc)

RECURSIVE ExecBlock(_, _, _)
\* what the call of a function of the snippet gives its caller: the value
\* it returned (None when it fell off its end) or the error it raised
DefCalled(r, loc) ==
    IF r.how = "raise" THEN Evaluated(NoneV, r.exc, loc) ELSE Evaluated(r.v, NoExc, loc)

\* callee(*args) for the callables a snippet can reach; a function of the
\* snippet takes no argument and reads no name of the code around it
CallValue(callee, args, env, loc) ==
    CASE callee.t = "def" /\ args = <<>> ->
            DefCalled(ExecBlock(callee.body,
                                FunctionEnv(env.globals, env.builtins,
                                            StoredNames(callee.body)),
                                EmptyScope),
                      loc)
      [] callee = BuiltinV("globals") /\ args = <<>> ->
            Evaluated(DictV(env.globals), NoExc, loc)
      [] callee = BuiltinV("locals") /\ args = <<>> ->
            Evaluated(DictV(loc), NoExc, loc)
      [] callee = FunctionV("sleep") /\ Len(args) = 1 ->
            Evaluated(CoroutineV("sleep"), NoExc, loc)
      [] callee = BuiltinV("ValueError") ->
            Evaluated(ExceptionV(Exc("ValueError", "snippet")), NoExc, loc)
      [] callee = ClassV("EvaluatorExit") /\ Len(args) >= 2 ->
            Evaluated(ExceptionV(EvaluatorExit(args[1], args[2], SubSeq(args, 3, Len(args)))),
                      NoExc, loc)
      [] OTHER -> Evaluated(NoneV, Exc("TypeError", "snippet"), loc)

\* await of the value r: asyncio.sleep(0) gives None, and what is not
\* awaitable is a TypeError
Awaited(r) ==
    IF r.exc # NoExc THEN r
    ELSE IF r.v.t = "coroutine" THEN Evaluated(NoneV, NoExc, r.loc)
    ELSE Evaluated(NoneV, Exc("TypeError", "snippet"), r.loc)

RECURSIVE Eval(_, _, _)
\* expressions evaluated left to right, into a tuple
RECURSIVE EvalElts(_, _, _, _)
EvalElts(elts, done, env, loc) ==
    IF elts = <<>>
    THEN Evaluated(TupleV(done), NoExc, loc)
    ELSE LET r == Eval(Head(elts), env, loc)
         IN IF r.exc # NoExc THEN r
            ELSE EvalElts(Tail(elts), Append(done, r.v), env, r.loc)

Eval(e, env, loc) ==
    CASE e.k = "Constant" -> Evaluated(e.value, NoExc, loc)
      [] e.k = "Name" -> LoadName(e.id, env, loc)
      [] e.k = "BinOp" ->
            LET l == Eval(e.left, env, loc)
                r == Eval(e.right, env, l.loc)
            IN IF l.exc # NoExc THEN l
               ELSE IF r.exc # NoExc THEN r
               ELSE IF l.v.t = "int" /\ r.v.t = "int" /\ e.op = "Add"
                    THEN Evaluated(IntV(l.v.n + r.v.n), NoExc, r.loc)
                    ELSE Evaluated(NoneV, Exc("TypeError", "snippet"), r.loc)
      [] e.k = "NamedExpr" ->
            LET r == Eval(e.value, env, loc)
            IN IF r.exc # NoExc THEN r
               ELSE Evaluated(r.v, NoExc, Put(r.loc, e.target.id, r.v))
      [] e.k = "Await" -> Awaited(Eval(e.value, env, loc))
      [] e.k = "Tuple" -> EvalElts(e.elts, <<>>, env, loc)
      [] e.k = "List" ->
            LET r == EvalElts(e.elts, <<>>, env, loc)
            IN IF r.exc # NoExc THEN r ELSE Evaluated(ListV(r.v.elts), NoExc, r.loc)
      [] e.k = "Call" ->
            LET f == LoadName(e.func, env, loc)
                a == EvalElts(e.args, <<>>, env, loc)
            IN IF f.exc # NoExc THEN f
               ELSE IF a.exc # NoExc THEN a
               ELSE CallValue(f.v, a.v.elts, env, a.loc)

\* how a block ends: it falls off its end ("fall"), returns v or raises exc;
\* uncaught is the error that was raised in it and that no handler caught
Ended(how, v, exc, loc) ==
    [how |-> how, v |-> v, exc |-> exc, loc |-> loc,
     uncaught |-> IF how = "raise" THEN exc ELSE NoExc]

\* `except <type>:` catches exc (every error of a snippet is an Exception)
Catches(handler, exc) == handler.type \in {"", "Exception", exc.type}

\* a finally clause that returns or raises replaces how the rest ended
TryFinally_ended(main, final) ==
    IF final.how = "fall" THEN [main EXCEPT !.loc = final.loc]
    ELSE [final EXCEPT !.uncaught = IF main.uncaught # NoExc THEN main.uncaught ELSE @]

\* the finally clause runs after the rest of the statement, however it ended
TryFinal(s, env, main) == TryFinally_ended(main, ExecBlock(s.finalbody, env, main.loc))

\* after the body: the first handler that catches its error, or the else
\* clause when it ended without one
TryMain(s, env, body) ==
    LET caught == {i \in 1..Len(s.handlers) : Catches(s.handlers[i], body.exc)}
        first == CHOOSE i \in caught : \A j \in caught : i <= j
    IN IF body.how = "raise" /\ caught # {}
       THEN TryFinal(s, env, ExecBlock(s.handlers[first].body, env, body.loc))
       ELSE IF body.how = "fall"
       THEN TryFinal(s, env, ExecBlock(s.orelse, env, body.loc))
       ELSE TryFinal(s, env, body)

ExecTry(s, env, loc) == TryMain(s, env, ExecBlock(s.body, env, loc))

\* the item of the iteration can be assigned to the loop target
Unpacks(target, item) ==
    target.k = "Name"
    \/ (item.t \in {"tuple", "list"} /\ Len(item.elts) = Len(target.elts))

\* the locals after the item is assigned to the loop target, a name or a
\* tuple of names
BindTarget(target, item, loc) ==
    IF target.k = "Name" THEN Put(loc, target.id, item)
    ELSE Update(loc, [n \in TargetNames(target) |->
                         item.elts[CHOOSE i \in 1..Len(target.elts) :
                                      /\ target.elts[i].id = n
                                      /\ \A j \in 1..Len(target.elts) :
                                            target.elts[j].id = n => j <= i]])

RECURSIVE ForItems(_, _, _, _)
\* the items after one whose turn of the loop body ended as r
ForNext(s, env, items, r) == IF r.how = "fall" THEN ForItems(s, env, items, r.loc) ELSE r

\* a loop over items: the body once per item, then the else clause (the
\* snippets hold no break)
ForItems(s, env, items, loc) ==
    IF items = <<>> THEN ExecBlock(s.orelse, env, loc)
    ELSE IF ~Unpacks(s.target, Head(items))
    THEN Ended("raise", NoneV, Exc("TypeError", "snippet"), loc)
    ELSE ForNext(s, env, Tail(items),
                 ExecBlock(s.body, env, BindTarget(s.target, Head(items), loc)))

\* a statement that evaluated an expression to r: an error of the
\* expression is raised by the statement
Statement(s, env, r) ==
    IF r.exc # NoExc THEN Ended("raise", NoneV, r.exc, r.loc)
    ELSE CASE s.k = "Expr" -> Ended("fall", NoneV, NoExc, r.loc)
           [] s.k = "Assign" ->
                Ended("fall", NoneV, NoExc,
                      Update(r.loc, [n \in {s.targets[i].id : i \in 1..Len(s.targets)} |-> r.v]))
           [] s.k = "Raise" ->
                IF r.v.t = "exception" THEN Ended("raise", NoneV, r.v.exc, r.loc)
                ELSE Ended("raise", NoneV, Exc("TypeError", "snippet"), r.loc)
           [] s.k = "Return" -> Ended("return", r.v, NoExc, r.loc)
           [] s.k = "If" ->
                IF Truthy(r.v) THEN ExecBlock(s.body, env, r.loc)
                ELSE ExecBlock(s.orelse, env, r.loc)
           [] s.k = "For" ->
                IF r.v.t \in {"tuple", "list"} THEN ForItems(s, env, r.v.elts, r.loc)
                ELSE Ended("raise", NoneV, Exc("TypeError", "snippet"), r.loc)

\* the expression a statement evaluates first
ExprOf(s) ==
    CASE s.k \in {"Expr", "Assign", "Return"} -> s.value
      [] s.k = "Raise" -> s.exc
      [] s.k = "If" -> s.test
      [] s.k = "For" -> s.iter

\* `import a, b as c`: every alias is bound to its module (the modules the
\* snippets import exist)
Imported(names, loc) ==
    Update(loc, [n \in {BoundName(names[i]) : i \in 1..Len(names)} |->
                    ModuleV(names[CHOOSE i \in 1..Len(names) : BoundName(names[i]) = n].name)])

\* del name: the name leaves the local scope; a name that is not bound
\* there is an UnboundLocalError in a function and a NameError in a module
Deleted(id, env, loc) ==
    IF id \in DOMAIN loc
    THEN Ended("fall", NoneV, NoExc, [n \in DOMAIN loc \ {id} |-> loc[n]])
    ELSE Ended("raise", NoneV,
               Exc(IF env.block = "function" THEN "UnboundLocalError" ELSE "NameError",
                   "snippet"),
               loc)

ExecStmt(s, env, loc) ==
    CASE s.k = "Pass" -> Ended("fall", NoneV, NoExc, loc)
      [] s.k = "Delete" -> Deleted(s.targets[1].id, env, loc)
      [] s.k = "Import" -> Ended("fall", NoneV, NoExc, Imported(s.names, loc))
      [] s.k = "FunctionDef" ->
            Ended("fall", NoneV, NoExc, Put(loc, s.name, DefV(s.name, s.body)))
      [] s.k = "Try" -> ExecTry(s, env, loc)
      [] OTHER -> Statement(s, env, Eval(ExprOf(s), env, loc))

\* the statements after one that ended as r
Continue(rest, env, r) == IF r.how = "fall" THEN ExecBlock(rest, env, r.loc) ELSE r

ExecBlock(stmts, env, loc) ==
    IF stmts = <<>>
    THEN Ended("fall", NoneV, NoExc, loc)
    ELSE Continue(Tail(stmts), env, ExecStmt(Head(stmts), env, loc))

\* a function that falls off its end returns None
FunctionEnded(r) == IF r.how = "fall" THEN Ended("return", NoneV, NoExc, r.loc) ELSE r

\* await _globals[function_name](**_locals): the body run with the locals
\* as keyword-only parameters
CallWrapper(body, _globals, _locals) ==
    FunctionEnded(ExecBlock(body,
                            FunctionEnv(_globals, Builtins, DOMAIN _locals \cup StoredNames(body)),
                            _locals))

(***************************************************************************)
(* utils.py: Session and ExecutionInfo.  An object is the record of the    *)
(* attributes it has: hasattr(obj, a) is  a \in DOMAIN obj.                *)
(***************************************************************************)
Session == [cache |-> <<>>, globals |-> EmptyScope, locals |-> EmptyScope]

\* a setter that replaces the scopes by the ones it is given
Session_variables_replace(session, value) ==
    [session EXCEPT !.globals = value[1].d, !.locals = value[2].d]

\* a setter that leaves the local scope alone
Session_variables_globals(session, value) ==
    [session EXCEPT !.globals = Update(@, value[1].d)]

\* the setter of Session.variables
Session_variables(session, value) ==
    [session EXCEPT !.globals = Update(@, value[1].d),
                    !.locals = Update(@, value[2].d)]

ExecutionInfo(code, globals, locals) ==
    [code |-> code, globals |-> globals, locals |-> locals]

(***************************************************************************)
(* evaluator.py: AEvaluator.                                               *)
(***************************************************************************)
\* the filename aeval gives a snippet: f"<code {code_hash}>"
CodeFile(code_hash) == [kind |-> "code", hash |-> code_hash, path |-> ""]

\* NodeTransformer() of utils.py has no attribute typing_name; a transformer
\* passed to AEvaluator(node_transformer=...) may carry one
NodeTransformers == {[kind |-> "NodeTransformer"],
                     [kind |-> "NodeTransformer", typing_name |-> "typing"]}

\* AEvaluator.__init__: code_hash and function_name are not set here
AEvaluator(node_transformer) ==
    [session |-> Session, node_transformer |-> node_transformer, empty_result |-> FALSE]

\* how a call ends
Returned(v) == [how |-> "return", v |-> v, exc |-> NoExc]
Raised(exc) == [how |-> "raise", v |-> NoneV, exc |-> exc]

\* the wrapper function was not called
NotRun == Ended("none", NoneV, NoExc, EmptyScope)

\* what _evaluate leaves: the evaluator, the dicts it was given (mutated in
\* place), either the error or the pair (result, variables), the stages of
\* the pipeline it went through and how the wrapper function ended
Evaluation(self, _globals, _locals, exc, result, variables, steps, ran) ==
    [self |-> self, _globals |-> _globals, _locals |-> _locals,
     exc |-> exc, result |-> result, variables |-> variables,
     steps |-> steps, ran |-> ran]

\* an empty result that comes with no scope: return None, ({}, {})
WrapperCalled_noscope(self, _globals, _locals, steps, ran) ==
    IF ran.how = "raise"
    THEN Evaluation(self, _globals, _locals, ran.exc, NoneV, <<>>, steps, ran)
    ELSE IF Len(ran.v.elts) = 2
    THEN Evaluation([self EXCEPT !.empty_result = TRUE], _globals, _locals, NoExc,
                    NoneV, <<DictV(EmptyScope), DictV(EmptyScope)>>, steps, ran)
    ELSE Evaluation(self, _globals, _locals, NoExc, ran.v.elts[1], Tail(ran.v.elts),
                    steps, ran)

\* lines 171-181: the wrapper ended as ran; a 2-tuple is an empty result
WrapperCalled(self, _globals, _locals, steps, ran) ==
    IF ran.how = "raise"
    THEN Evaluation(self, _globals, _locals, ran.exc, NoneV, <<>>, steps, ran)
    ELSE IF Len(ran.v.elts) = 2
    THEN Evaluation([self EXCEPT !.empty_result = TRUE], _globals, _locals, NoExc,
                    NoneV, ran.v.elts, steps, ran)
    ELSE Evaluation(self, _globals, _locals, NoExc, ran.v.elts[1], Tail(ran.v.elts),
                    steps, ran)

\* exec(compiled, _globals): _globals gets "__builtins__" and the wrapper
Defined(_globals, function_name) ==
    Put(IF "__builtins__" \in DOMAIN _globals THEN _globals
        ELSE Put(_globals, "__builtins__", BuiltinsModule),
        function_name, FunctionV(function_name))

RECURSIVE NoneInTuple(_)
\* compile() rejects an expression list that holds None where an expression
\* must be: the tuple of a rewritten bare `return`
NoneInTupleOf(s) ==
    CASE s.k = "Return" ->
            /\ s.value.k = "Tuple"
            /\ \E i \in 1..Len(s.value.elts) : s.value.elts[i] = NoNode
      [] s.k \in {"If", "For"} -> NoneInTuple(s.body) \/ NoneInTuple(s.orelse)
      [] s.k = "Try" ->
            \/ NoneInTuple(s.body) \/ NoneInTuple(s.orelse) \/ NoneInTuple(s.finalbody)
            \/ \E i \in 1..Len(s.handlers) : NoneInTuple(s.handlers[i].body)
      [] s.k = "FunctionDef" -> NoneInTuple(s.body)
      [] OTHER -> FALSE

NoneInTuple(body) == \E i \in 1..Len(body) : NoneInTupleOf(body[i])

\* lines 125-172: wrap the rewritten module, compile and exec it, then call
\* the wrapper
Compiled(self, module, _globals, _locals) ==
    IF NoneInTuple(module.body)
    THEN Evaluation(self, _globals, _locals, Exc("ValueError", "compile"),
                    NoneV, <<>>, <<"parse", "transform", "compile">>, NotRun)
    ELSE WrapperCalled(self, Defined(_globals, self.function_name), _locals,
                       <<"parse", "transform", "compile", "exec", "call">>,
                       CallWrapper(module.body, Defined(_globals, self.function_name),
                                   _locals))

\* lines 119-172: parse and rewrite, then compile and run
RunCode(self, code, _globals, _locals) ==
    IF Parse(code).body = <<>>
    THEN Evaluation(self, _globals, _locals, Exc("IndexError", "transform_module"),
                    NoneV, <<>>, <<"parse", "transform">>, NotRun)
    ELSE Compiled(self, transform_module(Parse(code)), _globals, _locals)

\* lines 106-117: the names of typing and of the wrapper, the blank check
Prepared(self, code, _globals, _locals, typing_name, function_name) ==
    IF IsEmptyStr(code)
    THEN Evaluation([self EXCEPT !.node_transformer.typing_name = typing_name,
                                 !.function_name = function_name,
                                 !.empty_result = TRUE],
                    _globals, Put(_locals, typing_name, TypingModule), NoExc,
                    NoneV, <<DictV(EmptyScope), DictV(EmptyScope)>>, <<>>, NotRun)
    ELSE RunCode([self EXCEPT !.node_transformer.typing_name = typing_name,
                              !.function_name = function_name],
                 code, _globals, Put(_locals, typing_name, TypingModule))

_evaluate(self, code, filename, _globals, _locals) ==
    IF "typing_name" \notin DOMAIN self.node_transformer
    THEN Evaluation(self, _globals, _locals, Exc("AttributeError", "_evaluate"),
                    NoneV, <<>>, <<>>, NotRun)
    ELSE Prepared(Put(self, "function_name", ""), Strip(code), _globals, _locals,
                  uniquify_name(self.node_transformer.typing_name, DOMAIN _locals),
                  uniquify_name("amain", DOMAIN _globals))

\* sys.excepthook
DefaultHook == "sys.__excepthook__"
EvaluatorHook == "AEvaluator._exc_handler"

\* what aeval leaves: the evaluator, sys.excepthook, the number of uuid4
\* draws and how the call ended; ev is what _evaluate gave, when called
Called(self, excepthook, uuids, outcome, ev) ==
    [self |-> self, excepthook |-> excepthook, uuids |-> uuids,
     outcome |-> outcome, ev |-> ev]

\* _evaluate was not called
NotEvaluated ==
    [exc |-> NoExc, result |-> NoneV, variables |-> <<>>, steps |-> <<>>, ran |-> NotRun]

\* the scopes a call runs with: the overrides, updated with the persisted
\* scope unless the call is isolated
ScopeOfCall(overrides, persisted, isolate) ==
    IF isolate THEN overrides ELSE Update(overrides, persisted)

\* a commit that ignores isolate: the variables are merged for every call
CommitVariablesAlways(session, isolate, variables) == Session_variables(session, variables)

\* the persisted scope after a call that returned variables
CommitVariables(session, isolate, variables) ==
    IF isolate THEN session ELSE Session_variables(session, variables)

\* a merge on error: what the failed run left in its scopes
\* is merged into the Session
SessionMergedOnError(session, isolate, _globals, _locals) ==
    IF isolate THEN session
    ELSE Session_variables(session, <<DictV(_globals), DictV(_locals)>>)

\* the session when the error of _evaluate leaves aeval: nothing is merged
SessionAfterError(session, isolate, _globals, _locals) == session

\* how aeval ends when _evaluate raised exc: the error propagates
PropagateError(exc) == Raised(exc)

\* the value aeval returns
ReturnValue(empty_result, result) == IF ~empty_result THEN result ELSE NoReturn

\* the Session with the execution info of the call stored under the hash
\* of the call before it
Cached(session, isolate, code_hash, code, globals, locals) ==
    IF isolate THEN session
    ELSE [session EXCEPT !.cache = Put(@, code_hash, ExecutionInfo(code, globals, locals))]

\* lines 81-95, ev being what _evaluate left; previous is the code_hash
\* the evaluator had when the call started.  exec_info holds the very
\* dicts _evaluate mutates.
Evaluated_aeval(excepthook, uuids, code, isolate, previous, ev) ==
    IF ev.exc # NoExc
    THEN Called([ev.self EXCEPT !.session =
                    Cached(SessionAfterError(@, isolate, ev._globals, ev._locals),
                           isolate, previous, code, ev._globals, ev._locals)],
                EvaluatorHook, uuids + 1, PropagateError(ev.exc), ev)
    ELSE Called([ev.self EXCEPT !.session =
                    Cached(CommitVariables(@, isolate, ev.variables),
                           isolate, previous, code, ev.variables[1].d, ev.variables[2].d)],
                excepthook, uuids + 1,
                Returned(ReturnValue(ev.self.empty_result, ev.result)), ev)

aeval(self, excepthook, uuids, code, glb, isolate, additional_vars) ==
    IF ~isolate /\ "code_hash" \notin DOMAIN self
    THEN Called(self, excepthook, uuids, Raised(Exc("AttributeError", "aeval")),
                NotEvaluated)
    ELSE Evaluated_aeval(excepthook, uuids, code, isolate,
                         IF isolate THEN 0 ELSE self.code_hash,
                         _evaluate(Put(self, "code_hash", uuids + 1), code,
                                   CodeFile(uuids + 1),
                                   ScopeOfCall(glb, self.session.globals, isolate),
                                   ScopeOfCall(additional_vars, self.session.locals, isolate)))

(***************************************************************************)
(* evaluator.py: the rendering of a traceback, format_tb.  A filename is   *)
(* the file of a snippet, "<code " + code_hash + ">", a file on disk or    *)
(* the placeholder "<code>".                                               *)
(***************************************************************************)
File(path) == [kind |-> "file", hash |-> 0, path |-> path]
\* __file__ of evaluator.py
EvaluatorFile == File("evaluator.py")
\* "<code>"
Placeholder == [kind |-> "placeholder", hash |-> 0, path |-> "<code>"]

\* filename_pattern.search(filename): "<code>" carries no uuid
MatchesPattern(filename) == filename.kind = "code"

\* str.splitlines() of the texts that are rendered
Splitlines(code) ==
    CASE code = "1 + 1" -> <<"1 + 1">>
      [] code = AssignThenRaise -> <<"x = 2", "raise ValueError()">>
      [] code = RaiseValueError -> <<"raise ValueError()">>
      [] OTHER -> <<>>

\* traceback.FrameSummary, with the pointer line traceback.format_tb prints
\* under it
FrameSummary(filename, lineno, name, line, pointer) ==
    [filename |-> filename, lineno |-> lineno, name |-> name, line |-> line,
     pointer |-> pointer]

\* utils.py, PatchedFrame(filename, lineno, name) with its line and pointer
PatchedFrame(filename, lineno, name, line, pointer) ==
    [filename |-> filename, lineno |-> lineno, name |-> name, line |-> line,
     pointer |-> pointer]

\* what _get_exec_info gives: the execution info found, or none
ExecInfoGot(exc, found, info) == [exc |-> exc, found |-> found, info |-> info]

\* exec_info is bound only when the filename matches the pattern
_get_exec_info(self, filename) ==
    IF ~MatchesPattern(filename)
    THEN ExecInfoGot(Exc("UnboundLocalError", "_get_exec_info"), FALSE,
                     ExecutionInfo("", EmptyScope, EmptyScope))
    ELSE IF filename.hash \in DOMAIN self.session.cache
    THEN ExecInfoGot(NoExc, TRUE, self.session.cache[filename.hash])
    ELSE ExecInfoGot(NoExc, FALSE, ExecutionInfo("", EmptyScope, EmptyScope))

\* self.hidden_frames
hidden_frames(self) ==
    {<<EvaluatorFile, self.function_name>>, <<EvaluatorFile, "_evaluate">>,
     <<EvaluatorFile, "aeval">>}

\* one turn of the loop of _patch_frames: the frames so far, or the error
FramesPatched(frames, exc) == [frames |-> frames, exc |-> exc]

\* the frame of a cached execution, got: the name, the line of the cached
\* text and the placeholder; its pointer was keyed by the old filename
CachedFrame(frame, got, done) ==
    IF frame.lineno > Len(Splitlines(got.info.code))
    THEN FramesPatched(done, Exc("IndexError", "_patch_frames"))
    ELSE FramesPatched(
            Append(done,
                   PatchedFrame(Placeholder, frame.lineno,
                                IF frame.name = got.info.code THEN "<module>" ELSE frame.name,
                                Splitlines(got.info.code)[frame.lineno], "")),
            NoExc)

FramePatched(frame, got, done) ==
    IF got.exc # NoExc THEN FramesPatched(done, got.exc)
    ELSE IF got.found THEN CachedFrame(frame, got, done)
    ELSE FramesPatched(Append(done, PatchedFrame(frame.filename, frame.lineno, frame.name,
                                                 frame.line, frame.pointer)),
                       NoExc)

RECURSIVE PatchFrames(_, _, _)
\* the frames after one that left r
PatchNext(self, frames, r) ==
    IF r.exc # NoExc THEN r ELSE PatchFrames(self, frames, r.frames)

PatchFrames(self, frames, done) ==
    IF frames = <<>> THEN FramesPatched(done, NoExc)
    ELSE IF <<Head(frames).filename, Head(frames).name>> \in hidden_frames(self)
    THEN PatchFrames(self, Tail(frames), done)
    ELSE PatchNext(self, Tail(frames),
                   FramePatched(Head(frames), _get_exec_info(self, Head(frames).filename),
                                done))

\* self.function_name is set by _evaluate
_patch_frames(self, tb) ==
    IF "function_name" \notin DOMAIN self
    THEN FramesPatched(<<>>, Exc("AttributeError", "_patch_frames"))
    ELSE PatchFrames(self, tb, <<>>)

\* an exception: its type and, for a SyntaxError, the file it names
ExceptionValue(type, filename) == [type |-> type, filename |-> filename]

\* the last line of the rendering; the file a SyntaxError of the current
\* execution names becomes the placeholder
_patch_exc_info(self, exc_type, exc_value) ==
    IF /\ exc_type = "SyntaxError" /\ MatchesPattern(exc_value.filename)
       /\ "code_hash" \in DOMAIN self /\ exc_value.filename.hash = self.code_hash
    THEN ExceptionValue(exc_value.type, Placeholder)
    ELSE exc_value

\* what format_tb returns: the frames and the exception line joined into
\* the text, or the error raised
Rendering(frames, exc_info, exc) == [frames |-> frames, exc_info |-> exc_info, exc |-> exc]

\* frames.pop() for a SyntaxError of the current execution; got is what
\* _get_exec_info gave for the filename of the last patched frame
LastFramePopped(self, frames, got) ==
    IF got.exc # NoExc THEN FramesPatched(frames, got.exc)
    ELSE IF ~got.found THEN FramesPatched(frames, NoExc)
    ELSE IF "function_name" \notin DOMAIN got.info
    THEN FramesPatched(frames, Exc("AttributeError", "patch_tb"))
    ELSE IF got.info.function_name = self.function_name
    THEN FramesPatched(SubSeq(frames, 1, Len(frames) - 1), NoExc)
    ELSE FramesPatched(frames, NoExc)

PatchedTb(self, exc_type, exc_value, r) ==
    IF r.exc # NoExc THEN Rendering(<<>>, exc_value, r.exc)
    ELSE Rendering(r.frames, _patch_exc_info(self, exc_type, exc_value), NoExc)

FramesOfTb(self, exc_type, r) ==
    IF r.exc # NoExc \/ exc_type # "SyntaxError" \/ r.frames = <<>> THEN r
    ELSE LastFramePopped(self, r.frames, _get_exec_info(self, Last(r.frames).filename))

patch_tb(self, exc_type, exc_value, tb) ==
    PatchedTb(self, exc_type, exc_value, FramesOfTb(self, exc_type, _patch_frames(self, tb)))

\* the header line and the join make a str of whatever patch_tb returned
format_tb(self, exc_type, exc_value, tb) == patch_tb(self, exc_type, exc_value, tb)

(***************************************************************************)
(* types.py: the rewriter that ends a snippet with the exit signal, and    *)
(* the execution engine ExecutionContext._evaluate.                        *)
(***************************************************************************)
\* node.lineno as ast.parse sets it: the snippets are written one statement
\* per line, a compound statement taking a line for its header and one for
\* each `else:`, `except ...:` and `finally:`
RECURSIVE Lines(_)
RECURSIVE BlockLines(_)
BlockLines(stmts) == IF stmts = <<>> THEN 0 ELSE Lines(Head(stmts)) + BlockLines(Tail(stmts))

\* the lines of a clause that is there: its header and its block
ClauseLines(stmts) == IF stmts = <<>> THEN 0 ELSE 1 + BlockLines(stmts)

RECURSIVE HandlersLines(_)
HandlersLines(handlers) ==
    IF handlers = <<>> THEN 0
    ELSE 1 + BlockLines(Head(handlers).body) + HandlersLines(Tail(handlers))

Lines(s) ==
    CASE "joined" \in DOMAIN s -> 0
      [] s.k = "FunctionDef" -> 1 + BlockLines(s.body)
      [] s.k \in {"If", "For"} -> 1 + BlockLines(s.body) + ClauseLines(s.orelse)
      [] s.k = "Try" ->
            1 + BlockLines(s.body) + HandlersLines(s.handlers)
            + ClauseLines(s.orelse) + ClauseLines(s.finalbody)
      [] OTHER -> 1

\* the lineno of the last statement of a block whose first statement is on
\* line `first`
LinenoOfLast(first, stmts) == first + BlockLines(SubSeq(stmts, 1, Len(stmts) - 1))

\* list.insert(i, x), for i >= 0
InsertAt(seq, i, x) ==
    IF i >= Len(seq) THEN Append(seq, x)
    ELSE SubSeq(seq, 1, i) \o <<x>> \o SubSeq(seq, i + 1, Len(seq))

\* what a handler of the rewriter of types.py leaves: the patched node (or
\* block), the insertions it made into self.module.body, in order, and the
\* error it raised, if any
Patched(node, inserts, exc) == [node |-> node, inserts |-> inserts, exc |-> exc]

\* self.module.body.insert(index, node)
Insertion(index, node) == [index |-> index, node |-> node]

RECURSIVE ApplyInserts(_, _)
ApplyInserts(body, inserts) ==
    IF inserts = <<>> THEN body
    ELSE ApplyInserts(InsertAt(body, Head(inserts).index, Head(inserts).node), Tail(inserts))

\* NodeTransformer.exit_node of types.py:
\* raise EvaluatorExit(globals(), locals()[, result]); for a result with
\* elts, list(*result.elts) is list() of no element and a TypeError of one
\* (a node is not iterable) or more (list takes one argument)
types_exit_node(result) ==
    LET args == IF result = NoNode THEN <<>>
                ELSE IF "ctx" \in DOMAIN result THEN <<[result EXCEPT !.ctx = "Load"]>>
                ELSE <<result>>
    IN IF result # NoNode /\ "elts" \in DOMAIN result /\ result.elts # <<>>
       THEN Patched(result, <<>>, Exc("TypeError", "exit_node"))
       ELSE Patched(Raise(Call("EvaluatorExit",
                               <<parse_expr("globals()"), parse_expr("locals()")>> \o args)),
                    <<>>, NoExc)

types_handle_Expr(node) == types_exit_node(node.value)

\* the assignment is inserted into the module body at index lineno - 1 and
\* the exit node gets its target, or the tuple of its targets
AssignInserted(node, lineno, exit) ==
    Patched(exit.node, <<Insertion(lineno - 1, node)>> \o exit.inserts, exit.exc)

types_handle_Assign(node, lineno) ==
    AssignInserted(node, lineno,
                   types_exit_node(IF Len(node.targets) = 1 THEN node.targets[1]
                                   ELSE Tuple(node.targets, "Store")))

\* handle_Assign is given a new Assign node, which has no lineno: reading
\* node.lineno for the insertion is an AttributeError
types_handle_AugAssign(node) ==
    Patched(Assign(<<node.target>>,
                   copy_location(node.value,
                                 BinOp(change_ctx(node.target), node.op, node.value))),
            <<>>, Exc("AttributeError", "handle_Assign"))

\* the import is inserted into the module body at index lineno - 1 and the
\* exit node gets the name it binds, or the tuple of the names
types_handle_Import(node, lineno) ==
    AssignInserted(node, lineno,
                   types_exit_node(IF Len(node.names) = 1
                                   THEN Name(BoundName(node.names[1]), "Load")
                                   ELSE Tuple([i \in 1..Len(node.names) |->
                                                  Name(BoundName(node.names[i]), "Load")],
                                              "Load")))

RECURSIVE types_patch_statement(_, _)
\* body[-1] = p, the patched last statement of the block
WithLast(body, p) == Patched(SetLast(body, p.node), p.inserts, p.exc)

\* body[-1] = self.patch_statement(body[-1]), the block starting on `first`
types_PatchLast(body, first) ==
    WithLast(body, types_patch_statement(Last(body), LinenoOfLast(first, body)))

\* a clause that is not there, or is not patched
Unpatched(block) == Patched(block, <<>>, NoExc)

\* two blocks patched one after the other: the second is not reached when
\* the first raised
Both(b, o) ==
    IF b.exc # NoExc THEN Patched(<<b.node, o.node>>, b.inserts, b.exc)
    ELSE Patched(<<b.node, o.node>>, b.inserts \o o.inserts, o.exc)

IfPatched(node, both) ==
    Patched([node EXCEPT !.body = both.node[1], !.orelse = both.node[2]],
            both.inserts, both.exc)

types_handle_If(node, lineno) ==
    IfPatched(node,
              Both(types_PatchLast(node.body, lineno + 1),
                   IF node.orelse # <<>>
                   THEN types_PatchLast(node.orelse, lineno + 2 + BlockLines(node.body))
                   ELSE Unpatched(node.orelse)))

ForPatched(node, o) == Patched([node EXCEPT !.orelse = o.node], o.inserts, o.exc)

\* without an else clause: self.exit_node(value=node.target), a keyword
\* exit_node does not have
types_handle_For(node, lineno) ==
    IF node.orelse # <<>>
    THEN ForPatched(node, types_PatchLast(node.orelse, lineno + 2 + BlockLines(node.body)))
    ELSE Patched(node, <<>>, Exc("TypeError", "handle_For"))

RECURSIVE types_PatchHandlers(_, _)
\* handler.body[-1] = self.patch_statement(handler.body[-1]) for every
\* handler, the first one starting on line `first`
HandlersPatched(handler, both) ==
    Patched(<<[handler EXCEPT !.body = both.node[1]]>> \o both.node[2],
            both.inserts, both.exc)

types_PatchHandlers(handlers, first) ==
    IF handlers = <<>> THEN Unpatched(<<>>)
    ELSE HandlersPatched(Head(handlers),
                         Both(types_PatchLast(Head(handlers).body, first + 1),
                              types_PatchHandlers(Tail(handlers),
                                                  first + 1 + BlockLines(Head(handlers).body))))

TryPatched(node, clause, p) ==
    CASE clause = "finalbody" -> Patched([node EXCEPT !.finalbody = p.node], p.inserts, p.exc)
      [] clause = "orelse" -> Patched([node EXCEPT !.orelse = p.node], p.inserts, p.exc)
      [] clause = "body" ->
            Patched([node EXCEPT !.body = p.node[1], !.handlers = p.node[2]],
                    p.inserts, p.exc)

types_handle_Try(node, lineno) ==
    IF node.finalbody # <<>>
    THEN TryPatched(node, "finalbody",
                    types_PatchLast(node.finalbody,
                                    lineno + 2 + BlockLines(node.body)
                                    + HandlersLines(node.handlers) + ClauseLines(node.orelse)))
    ELSE IF node.orelse # <<>>
    THEN TryPatched(node, "orelse",
                    types_PatchLast(node.orelse,
                                    lineno + 2 + BlockLines(node.body)
                                    + HandlersLines(node.handlers)))
    ELSE TryPatched(node, "body",
                    Both(types_PatchLast(node.body, lineno + 1),
                         types_PatchHandlers(node.handlers,
                                             lineno + 1 + BlockLines(node.body))))

\* NodeTransformer.patch_statement of types.py, for the statement kinds of
\* the snippets; a kind without a handler is returned as it is
types_patch_statement(node, lineno) ==
    CASE node.k = "Assign" -> types_handle_Assign(node, lineno)
      [] node.k = "AugAssign" -> types_handle_AugAssign(node)
      [] node.k = "For" -> types_handle_For(node, lineno)
      [] node.k = "If" -> types_handle_If(node, lineno)
      [] node.k = "Import" -> types_handle_Import(node, lineno)
      [] node.k = "Expr" -> types_handle_Expr(node)
      [] node.k = "Try" -> types_handle_Try(node, lineno)
      [] OTHER -> Unpatched(node)

RECURSIVE IndexAfter(_, _)
\* the index (from 0) of the statement that was at index i, after the
\* insertions
IndexAfter(i, inserts) ==
    IF inserts = <<>> THEN i
    ELSE IndexAfter(IF Head(inserts).index <= i THEN i + 1 ELSE i, Tail(inserts))

\* a handler of a compound statement patches the node it is given in
\* place, the handler of a simple statement returns a new node
InPlace(node, p) == IF node.k \in {"If", "For", "Try"} THEN p.node ELSE node

\* the module after self.module.body[-1] = p, p being the patched last
\* statement: the insertions were made while it was patched, the statement
\* itself is where they left it and the last place of the body gets p;
\* then the final exit point is appended
ModulePatched(module, p) ==
    Patched([module EXCEPT !.body =
                Append(SetLast([ApplyInserts(@, p.inserts)
                                   EXCEPT ![IndexAfter(Len(@) - 1, p.inserts) + 1] =
                                              InPlace(Last(module.body), p)],
                               p.node),
                       types_exit_node(NoNode).node)],
            p.inserts, p.exc)

\* NodeTransformer.handle_Return of types.py
types_handle_Return(node) == types_exit_node(node.value)

RECURSIVE types_patch_returns(_)
RECURSIVE types_PatchReturnsIn(_)
\* a list of nodes patched one after the other, the function definitions
\* in it kept as they are
ReturnsCons(h, t) ==
    IF h.exc # NoExc THEN Patched(<<h.node>>, <<>>, h.exc)
    ELSE Patched(<<h.node>> \o t.node, <<>>, t.exc)

types_PatchReturnsIn(nodes) ==
    IF nodes = <<>> THEN Unpatched(<<>>)
    ELSE ReturnsCons(IF Head(nodes).k = "FunctionDef" THEN Unpatched(Head(nodes))
                     ELSE types_patch_returns(Head(nodes)),
                     types_PatchReturnsIn(Tail(nodes)))

\* the node with its lists of statements, fields in order, set to p
ReturnsPatched(node, fields, p) ==
    Patched([f \in DOMAIN node |->
                IF \E i \in 1..Len(fields) : fields[i] = f
                THEN p.node[CHOOSE i \in 1..Len(fields) : fields[i] = f]
                ELSE node[f]],
            <<>>, p.exc)

\* lists patched in the order of the fields; the later ones are not
\* reached when one raised
RECURSIVE ReturnsInFields(_, _)
FieldsCons(h, t) ==
    IF h.exc # NoExc THEN Patched(<<h.node>> \o t.node, <<>>, h.exc)
    ELSE Patched(<<h.node>> \o t.node, <<>>, t.exc)

ReturnsInFields(node, fields) ==
    IF fields = <<>> THEN Unpatched(<<>>)
    ELSE FieldsCons(types_PatchReturnsIn(node[Head(fields)]),
                    ReturnsInFields(node, Tail(fields)))

\* NodeTransformer.patch_returns of types.py
types_patch_returns(node) ==
    CASE node.k = "Return" -> types_handle_Return(node)
      [] node.k \in {"Module", "ExceptHandler"} ->
            ReturnsPatched(node, <<"body">>, ReturnsInFields(node, <<"body">>))
      [] node.k \in {"If", "For"} ->
            ReturnsPatched(node, <<"body", "orelse">>,
                           ReturnsInFields(node, <<"body", "orelse">>))
      [] node.k = "Try" ->
            ReturnsPatched(node, <<"body", "handlers", "orelse", "finalbody">>,
                           ReturnsInFields(node, <<"body", "handlers", "orelse",
                                                   "finalbody">>))
      [] OTHER -> Unpatched(node)

\* self.module = self.patch_returns(self.module), after the last statement
\* was patched as p
ModuleReturnsPatched(p, r) == IF p.exc # NoExc THEN p ELSE Patched(r.node, p.inserts, r.exc)

\* NodeTransformer.transform_module of types.py; module.body[-1] of an
\* empty body is an IndexError
TransformedModule(p) == ModuleReturnsPatched(p, types_patch_returns(p.node))

types_transform_module(module) ==
    IF module.body = <<>>
    THEN Patched(module, <<>>, Exc("IndexError", "transform_module"))
    ELSE TransformedModule(ModulePatched(module,
                                         types_patch_statement(Last(module.body),
                                                               LinenoOfLast(1, module.body))))

\* ExecutionContext(id, no, code): result and exc_info are not set
ExecutionContext(id, code) ==
    [id |-> id, code |-> code, globals |-> EmptyScope, locals |-> EmptyScope,
     empty_result |-> FALSE]

\* the names CustomBuiltins is given in _evaluate
EngineOverrides == [name \in {"EvaluatorExit"} |-> ClassV(name)]

\* `with CustomBuiltins(overrides):` on entry: the builtin namespace is
\* saved and then extended with the overrides
CustomBuiltins_enter(builtins, overrides) ==
    [builtins |-> Update(builtins, overrides), saved |-> builtins]

\* on exit: the saved builtin namespace is put back
CustomBuiltins_exit(builtins, saved) == saved

\* a with block left without __exit__ when a real error crosses it
LeaveWithUnlessError(ended, builtins, saved) ==
    IF ended.how = "raise" /\ ended.exc.type # "EvaluatorExit"
    THEN builtins
    ELSE CustomBuiltins_exit(builtins, saved)

\* the builtin namespace when the with block of _evaluate is left, however
\* its body ended: __exit__ runs on every way out
LeaveWith(ended, builtins, saved) == CustomBuiltins_exit(builtins, saved)

\* a top-level `await ...` statement, where the coroutine can be suspended
IsAwait(s) == s.k = "Expr" /\ s.value.k = "Await"

\* the compiled module run until it ends or reaches a top-level await
Run(ended, suspended, rest) == [ended |-> ended, suspended |-> suspended, rest |-> rest]

RECURSIVE RunUntilAwait(_, _, _)
\* the statements after one that ended as r
ContinueUntilAwait(rest, env, r) ==
    IF r.how = "fall" THEN RunUntilAwait(rest, env, r.loc) ELSE Run(r, FALSE, <<>>)

RunUntilAwait(body, env, loc) ==
    IF body = <<>> THEN Run(Ended("fall", NoneV, NoExc, loc), FALSE, <<>>)
    ELSE IF IsAwait(Head(body))
    THEN Run(Ended("fall", NoneV, NoExc, loc), TRUE, Tail(body))
    ELSE ContinueUntilAwait(Tail(body), env, ExecStmt(Head(body), env, loc))

\* what the try statement of _evaluate and the return after the with block
\* make of the way the code ended: the context and how _evaluate ends
Finished(self, outcome) == [self |-> self, outcome |-> outcome]

\* the context with the fields of the exit signal
Signalled(self, exit) ==
    Put([self EXCEPT !.globals = exit.globals.d, !.locals = exit.locals.d,
                     !.empty_result = exit.empty_result],
        "result", exit.result)

\* return self.result, self.globals, self.locals; result may be unset
ReturnResult(self) ==
    IF "result" \in DOMAIN self
    THEN Finished(self, Returned(TupleV(<<self.result, DictV(self.globals),
                                          DictV(self.locals)>>)))
    ELSE Finished(self, Raised(Exc("AttributeError", "_evaluate")))

ExecutionContext_finish(self, ended) ==
    IF ended.how = "raise" /\ ended.exc.type = "EvaluatorExit"
    THEN ReturnResult(Signalled(self, ended.exc))
    ELSE IF ended.how = "raise"
    THEN Finished(Put([self EXCEPT !.locals = ended.loc], "exc_info", ended.exc),
                  Raised(ended.exc))
    ELSE \* no exit signal was raised
         ReturnResult([self EXCEPT !.locals = ended.loc])

(***************************************************************************)
(* The state: an evaluator, the process-wide exception hook, the uuid4     *)
(* draws so far, and the latest call with how it ended; a second evaluator *)
(* of the same process with its latest call; the process-wide builtin      *)
(* namespace and the executions of the engine of types.py, started so far; *)
(* the traceback rendered by format_tb since the latest call; a call of    *)
(* uniquify_name; the calls of aeval that were suspended at an await of    *)
(* their snippet.                                                          *)
(***************************************************************************)
VARIABLES evaluator, excepthook, uuids, last, other, other_last, builtins, executions,
          rendered, unique, inflight

vars == <<evaluator, excepthook, uuids, last, other, other_last, builtins, executions,
          rendered, unique, inflight>>

\* the overrides a caller passes as glb and as **additional_vars
GlbOverrides == {EmptyScope, [x |-> IntV(3)]}
LocalOverrides == {EmptyScope, [x |-> IntV(2)]}

\* a call and what became of it
CallRecord(code, glb, isolate, additional_vars, c) ==
    [code |-> code, glb |-> glb, additional_vars |-> additional_vars,
     isolate |-> isolate, outcome |-> c.outcome, result |-> c.ev.result,
     steps |-> c.ev.steps,
     ran |-> [how |-> c.ev.ran.how, v |-> c.ev.ran.v, uncaught |-> c.ev.ran.uncaught]]

\* a call of format_tb: the exception and traceback given and what it gave
Rendered(exc_value, tb, out) ==
    [made |-> TRUE, exc_value |-> exc_value, tb |-> tb, out |-> out]

NotRendered ==
    [made |-> FALSE, exc_value |-> ExceptionValue("", File("")), tb |-> <<>>,
     out |-> Rendering(<<>>, ExceptionValue("", File("")), NoExc)]

\* a call uniquify_name(name, namespace): its arguments, whether it has
\* returned, and its local `name`, which it returns
Uniquify(name, namespace, done, result) ==
    [name |-> name, namespace |-> namespace, done |-> done, result |-> result]

NoUniquify == Uniquify("", {}, FALSE, "")

NoCall == [code |-> "", glb |-> EmptyScope, additional_vars |-> EmptyScope,
           isolate |-> FALSE, outcome |-> [how |-> "none", v |-> NoneV, exc |-> NoExc],
           result |-> NoneV, steps |-> <<>>,
           ran |-> [how |-> "none", v |-> NoneV, uncaught |-> NoExc]]

Init ==
    /\ \E nt \in NodeTransformers :
          /\ evaluator = AEvaluator(nt)
          /\ other = AEvaluator(nt)
    /\ excepthook = DefaultHook
    /\ uuids = 0
    /\ last = NoCall
    /\ other_last = NoCall
    /\ builtins = Builtins
    /\ executions = <<>>
    /\ rendered = NotRendered
    /\ unique = NoUniquify
    /\ inflight = <<>>

\* await evaluator.aeval(code, glb, isolate, **additional_vars), for a
\* snippet that does not suspend
Aeval(code, glb, isolate, additional_vars) ==
    /\ uuids < MaxCalls
    /\ \E c \in {aeval(evaluator, excepthook, uuids, code, glb, isolate, additional_vars)} :
          /\ evaluator' = c.self
          /\ excepthook' = c.excepthook
          /\ uuids' = c.uuids
          /\ last' = CallRecord(code, glb, isolate, additional_vars, c)
    /\ rendered' = NotRendered
    /\ UNCHANGED <<other, other_last, builtins, executions, unique, inflight>>

\* the same on the second evaluator
AevalOther(code, glb, isolate, additional_vars) ==
    /\ uuids < MaxCalls
    /\ \E c \in {aeval(other, excepthook, uuids, code, glb, isolate, additional_vars)} :
          /\ other' = c.self
          /\ excepthook' = c.excepthook
          /\ uuids' = c.uuids
          /\ other_last' = CallRecord(code, glb, isolate, additional_vars, c)
    /\ rendered' = NotRendered
    /\ UNCHANGED <<evaluator, last, builtins, executions, unique, inflight>>

Next ==
    \E code \in Codes, glb \in GlbOverrides, isolate \in BOOLEAN,
       additional_vars \in LocalOverrides :
        Aeval(code, glb, isolate, additional_vars)

Spec == Init /\ [][Next]_vars

\* the snippets and overrides tried on two evaluators side by side
PairCodes == {"", "x = 1", "1 + 1"}

NextPair ==
    \E code \in PairCodes, isolate \in BOOLEAN, additional_vars \in LocalOverrides :
        \/ Aeval(code, EmptyScope, isolate, additional_vars)
        \/ AevalOther(code, EmptyScope, isolate, additional_vars)

SpecPair == Init /\ [][NextPair]_vars

(***************************************************************************)
(* ExecutionContext._evaluate as steps: from its start to the first await  *)
(* of the snippet or to its end, and from one await to the next or to the  *)
(* end.  Other executions of the process run while one is suspended.       *)
(***************************************************************************)
\* an execution: its context, where it is, the builtin namespace when it
\* started, what its CustomBuiltins saved, the statements left and how
\* _evaluate ended
Execution(self, status, before, saved, rest, loc, outcome) ==
    [self |-> self, status |-> status, before |-> before, saved |-> saved,
     rest |-> rest, loc |-> loc, outcome |-> outcome]

NoOutcome == [how |-> "none", v |-> NoneV, exc |-> NoExc]

\* the execution and the builtin namespace after its code ran up to `run`
Ran(ex, done, run, namespace) ==
    IF run.suspended
    THEN [execution |-> [ex EXCEPT !.status = "suspended", !.rest = run.rest,
                                   !.loc = run.ended.loc],
          builtins |-> namespace]
    ELSE [execution |-> [ex EXCEPT !.self = done.self, !.status = "ended",
                                   !.rest = <<>>, !.loc = run.ended.loc,
                                   !.outcome = done.outcome],
          builtins |-> LeaveWith(run.ended, namespace, ex.saved)]

Advanced(ex, run, namespace) ==
    Ran(ex, ExecutionContext_finish(ex.self, run.ended), run, namespace)

\* a new execution inside `with CustomBuiltins(...)`: exec puts
\* "__builtins__" into its globals
Entered(ctx, before, entered) ==
    Execution([ctx EXCEPT !.globals = Put(@, "__builtins__", BuiltinsModule)],
              "running", before, entered.saved, <<>>, ctx.locals, NoOutcome)

\* _evaluate from its start to the first suspension, entered being what
\* CustomBuiltins made of the builtin namespace
Started(ex, module, entered) ==
    Advanced(ex, RunUntilAwait(module.body, ModuleEnv(ex.self.globals, entered.builtins),
                               ex.self.locals),
             entered.builtins)

\* the rewriter raised: _evaluate is not called and the caller gets the error
Rejected(ctx, namespace, exc) ==
    [execution |-> Execution(ctx, "rejected", namespace, namespace, <<>>, ctx.locals,
                             Raised(exc)),
     builtins |-> namespace]

\* the snippet of a new context rewritten to t, and then run
Transformed(ctx, namespace, t) ==
    IF t.exc # NoExc THEN Rejected(ctx, namespace, t.exc)
    ELSE Started(Entered(ctx, namespace, CustomBuiltins_enter(namespace, EngineOverrides)),
                 t.node, CustomBuiltins_enter(namespace, EngineOverrides))

\* module = transformer.transform_module(ast.parse(code)) and
\* await context._evaluate(module) up to the first suspension
Evaluate(code) ==
    /\ Len(executions) < MaxExecutions
    /\ \E adv \in {Transformed(ExecutionContext(Len(executions) + 1, code), builtins,
                               types_transform_module(Parse(code)))} :
          /\ executions' = Append(executions, adv.execution)
          /\ builtins' = adv.builtins
    /\ UNCHANGED <<evaluator, excepthook, uuids, last, other, other_last, rendered,
                   unique, inflight>>

\* the event loop resumes a suspended execution
Resume(i) ==
    /\ executions[i].status = "suspended"
    /\ \E adv \in {Advanced(executions[i],
                            RunUntilAwait(executions[i].rest,
                                          ModuleEnv(executions[i].self.globals, builtins),
                                          executions[i].loc),
                            builtins)} :
          /\ executions' = [executions EXCEPT ![i] = adv.execution]
          /\ builtins' = adv.builtins
    /\ UNCHANGED <<evaluator, excepthook, uuids, last, other, other_last, rendered,
                   unique, inflight>>

NextEngine ==
    \/ \E code \in EngineCodes : Evaluate(code)
    \/ \E i \in 1..Len(executions) : Resume(i)

SpecEngine == Init /\ [][NextEngine]_vars

(***************************************************************************)
(* Calls of the evaluator and renderings of tracebacks.  A traceback runs  *)
(* from the caller through aeval and _evaluate into the wrapper function   *)
(* of a snippet and a function a snippet defined; format_tb is public and  *)
(* takes any part of it.                                                   *)
(***************************************************************************)
CallerFrame == FrameSummary(File("main.py"), 1, "<module>", "asyncio.run(main())", "")
AevalFrame ==
    FrameSummary(EvaluatorFile, 81, "aeval", "result, variables = await self._evaluate(", "")
EvaluateFrame ==
    FrameSummary(EvaluatorFile, 172, "_evaluate",
                 "result = await _globals[self.function_name](**_locals)", "")

\* a frame of the code of a snippet: linecache has no text for its file
SnippetFrame(code_hash, lineno, name) ==
    FrameSummary(CodeFile(code_hash), lineno, name, "", "")

\* the line numbers of the frames of a snippet
FrameLines == {1, 2}

\* the executions whose frames are rendered: the latest and the one before
FrameHashes(self) ==
    IF "code_hash" \in DOMAIN self
    THEN {self.code_hash, self.code_hash - 1} \ {0}
    ELSE {}

\* the name of the wrapper function of a snippet
WrapperName(self) ==
    IF "function_name" \in DOMAIN self THEN self.function_name ELSE "amain"

Tracebacks(self) ==
    {outer \o inner :
        outer \in {<<>>, <<AevalFrame, EvaluateFrame>>,
                   <<CallerFrame, AevalFrame, EvaluateFrame>>},
        inner \in {<<>>}
            \cup {<<SnippetFrame(h, l, WrapperName(self))>> :
                      h \in FrameHashes(self), l \in FrameLines}
            \cup {<<SnippetFrame(hl[1], hl[2], WrapperName(self)),
                      SnippetFrame(hl[3], hl[4], "f")>> :
                      hl \in FrameHashes(self) \X FrameLines
                             \X FrameHashes(self) \X FrameLines}}

ExceptionValues(self) ==
    {ExceptionValue("ValueError", File(""))}
    \cup {ExceptionValue("SyntaxError", f) :
              f \in {File("<string>")} \cup {CodeFile(h) : h \in FrameHashes(self)}}

\* evaluator.format_tb(exc_type, exc_value, tb)
FormatTb(exc_value, tb) ==
    /\ rendered' = Rendered(exc_value, tb, format_tb(evaluator, exc_value.type, exc_value, tb))
    /\ UNCHANGED <<evaluator, excepthook, uuids, last, other, other_last, builtins,
                   executions, unique, inflight>>

\* the snippets whose tracebacks are rendered
TraceCodes == {"1 + 1", AssignThenRaise}

NextTrace ==
    \/ \E code \in TraceCodes, isolate \in BOOLEAN :
          Aeval(code, EmptyScope, isolate, EmptyScope)
    \/ \E exc_value \in ExceptionValues(evaluator), tb \in Tracebacks(evaluator) :
          FormatTb(exc_value, tb)

SpecTrace == Init /\ [][NextTrace]_vars

(***************************************************************************)
(* uniquify_name on its own, turn by turn of its loop: the call starts     *)
(* with a name and a namespace, puts underscores before the name and       *)
(* returns.  A call that has started keeps running.                        *)
(***************************************************************************)
\* the names asked for and the names a namespace may hold
UniquifyNames == {"x", "_x", "y"}
NamespaceNames == {"x", "_x", "__x", "y", "_y", "typing"}

InitUniquify ==
    /\ \E nt \in NodeTransformers :
          /\ evaluator = AEvaluator(nt)
          /\ other = AEvaluator(nt)
    /\ excepthook = DefaultHook
    /\ uuids = 0
    /\ last = NoCall
    /\ other_last = NoCall
    /\ builtins = Builtins
    /\ executions = <<>>
    /\ rendered = NotRendered
    /\ \E name \in UniquifyNames, namespace \in SUBSET NamespaceNames :
          unique = Uniquify(name, namespace, FALSE, name)
    /\ inflight = <<>>

\* while name in namespace: name = "_" + name
UniquifyLoop ==
    /\ ~unique.done
    /\ unique.result \in unique.namespace
    /\ unique' = [unique EXCEPT !.result = "_" \o @]
    /\ UNCHANGED <<evaluator, excepthook, uuids, last, other, other_last, builtins,
                   executions, rendered, inflight>>

\* return name
UniquifyReturn ==
    /\ ~unique.done
    /\ unique.result \notin unique.namespace
    /\ unique' = [unique EXCEPT !.done = TRUE]
    /\ UNCHANGED <<evaluator, excepthook, uuids, last, other, other_last, builtins,
                   executions, rendered, inflight>>

NextUniquify == UniquifyLoop \/ UniquifyReturn

SpecUniquify == InitUniquify /\ [][NextUniquify]_vars /\ WF_vars(NextUniquify)

(***************************************************************************)
(* The two rewriters side by side: a snippet is submitted to the evaluator *)
(* of evaluator.py, rewritten by utils.py, or to the engine of types.py.   *)
(***************************************************************************)
NextRewrite ==
    \/ \E code \in RewriteCodes, isolate \in BOOLEAN :
          /\ uuids + Len(executions) < MaxRewrites
          /\ Aeval(code, EmptyScope, isolate, EmptyScope)
    \/ \E code \in RewriteCodes :
          /\ uuids + Len(executions) < MaxRewrites
          /\ Evaluate(code)

SpecRewrite == Init /\ [][NextRewrite]_vars

(***************************************************************************)
(* The same for the snippets whose terminal statement follows other        *)
(* statements, rebinds a name or returns; the evaluator is called with     *)
(* overrides.                                                              *)
(***************************************************************************)
\* the snippets submitted to both rewriters with earlier statements
TerminalCodes == OrderCodes \cup AugCodes \cup ReturnCodes \cup CountedCodes

NextTerminal ==
    \/ \E code \in TerminalCodes, isolate \in BOOLEAN, additional_vars \in LocalOverrides :
          /\ uuids + Len(executions) < MaxRewrites
          /\ Aeval(code, EmptyScope, isolate, additional_vars)
    \/ \E code \in TerminalCodes :
          /\ uuids + Len(executions) < MaxRewrites
          /\ Evaluate(code)

SpecTerminal == Init /\ [][NextTerminal]_vars

(***************************************************************************)
(* Calls of the evaluator with snippets that end at the final exit point   *)
(* and snippets that end with a value.                                     *)
(***************************************************************************)
EndCodes == UnhandledCodes \cup {"x = 1", "1 + 1"}

NextEmpty ==
    \E code \in EndCodes, isolate \in BOOLEAN : Aeval(code, EmptyScope, isolate, EmptyScope)

SpecEmpty == Init /\ [][NextEmpty]_vars

(***************************************************************************)
(* Calls of the evaluator with snippets that bind, read and unbind names.  *)
(***************************************************************************)
ScopeCodes == {"", "x = 1", "x", DelX, "pass"}

NextScope ==
    \E code \in ScopeCodes, isolate \in BOOLEAN, additional_vars \in LocalOverrides :
        Aeval(code, EmptyScope, isolate, additional_vars)

SpecScope == Init /\ [][NextScope]_vars

(***************************************************************************)
(* aeval as steps: from its start to an await of the snippet, where the    *)
(* call is suspended, and from there to its end.  Other calls on the same  *)
(* evaluator start, run and end while one is suspended.                    *)
(***************************************************************************)
\* the glb of a caller that gives its snippets asyncio.sleep
SleepGlb == [sleep |-> FunctionV("sleep")]

\* lines 59-80 and 104-112 for a call that draws `code_hash`: the dicts the
\* wrapper is given, the names chosen, and what the call keeps in its frame
\* (the hook it saw, the code_hash before it)
Begun(self, hook, code_hash, code, isolate, _globals, _locals, typing_name, function_name) ==
    [code |-> code, isolate |-> isolate, hook |-> hook,
     previous |-> IF isolate THEN 0 ELSE self.code_hash, code_hash |-> code_hash,
     typing_name |-> typing_name, function_name |-> function_name,
     _globals |-> Defined(_globals, function_name),
     _locals |-> Put(_locals, typing_name, TypingModule),
     before |-> self, status |-> "suspended", ended |-> 0, outcome |-> NoOutcome,
     committed |-> EmptyScope]

aeval_begin(self, hook, code_hash, code, glb, isolate) ==
    Begun(self, hook, code_hash, code, isolate,
          ScopeOfCall(glb, self.session.globals, isolate),
          ScopeOfCall(EmptyScope, self.session.locals, isolate),
          uniquify_name(self.node_transformer.typing_name,
                        DOMAIN ScopeOfCall(EmptyScope, self.session.locals, isolate)),
          uniquify_name("amain", DOMAIN ScopeOfCall(glb, self.session.globals, isolate)))

\* the evaluator while the call p is suspended: exec_info is in the cache
\* and holds the dicts of the call
Suspended(self, p) ==
    [Put(Put(self, "code_hash", p.code_hash), "function_name", p.function_name)
        EXCEPT !.node_transformer.typing_name = p.typing_name,
               !.session = Cached(@, p.isolate, p.previous, p.code, p._globals, p._locals)]

\* the call reaches its await: nothing raises before the wrapper is called,
\* and the first statement of the wrapper awaits a coroutine
Suspends(self, code, glb, isolate) ==
    /\ isolate \/ "code_hash" \in DOMAIN self
    /\ "typing_name" \in DOMAIN self.node_transformer
    /\ Parse(Strip(code)).body # <<>>
    /\ ~NoneInTuple(transform_module(Parse(Strip(code))).body)
    /\ IsAwait(Head(transform_module(Parse(Strip(code))).body))
    /\ Eval(Head(Parse(Strip(code)).body).value.value,
            FunctionEnv(ScopeOfCall(glb, self.session.globals, isolate), Builtins, {}),
            EmptyScope).v.t = "coroutine"

\* the statements of the wrapper after its first await
AfterAwait(code) == Tail(transform_module(Parse(Strip(code))).body)

\* lines 172-181 for the suspended call p, resumed on the evaluator as it
\* is now
aeval_resumed(self, p) ==
    WrapperCalled(self, p._globals, p._locals,
                  <<"parse", "transform", "compile", "exec", "call">>,
                  CallWrapper(AfterAwait(p.code), p._globals, p._locals))

\* lines 81-95 for the suspended call p
aeval_end(self, drawn, p) ==
    Evaluated_aeval(p.hook, drawn, p.code, p.isolate, p.previous, aeval_resumed(self, p))

\* the local scope a call that ended handed to the Session
CommittedBy(c) ==
    IF c.outcome.how = "return" /\ Len(c.ev.variables) = 2
    THEN c.ev.variables[2].d
    ELSE EmptyScope

\* the suspended calls that have ended
EndedCalls == {i \in 1..Len(inflight) : inflight[i].status = "ended"}

\* await evaluator.aeval(code, glb, isolate) up to the first await of the
\* snippet; a call that does not get there runs to its end
BeginAeval(code, glb, isolate) ==
    /\ Len(inflight) < MaxSuspended
    /\ uuids < MaxCalls + Len(inflight)
    /\ IF Suspends(evaluator, code, glb, isolate)
       THEN \E p \in {aeval_begin(evaluator, excepthook, uuids + 1, code, glb, isolate)} :
               /\ evaluator' = Suspended(evaluator, p)
               /\ excepthook' = EvaluatorHook
               /\ inflight' = Append(inflight, p)
               /\ uuids' = uuids + 1
               /\ UNCHANGED last
       ELSE \E c \in {aeval(evaluator, excepthook, uuids, code, glb, isolate, EmptyScope)} :
               /\ evaluator' = c.self
               /\ excepthook' = c.excepthook
               /\ uuids' = c.uuids
               /\ last' = CallRecord(code, glb, isolate, EmptyScope, c)
               /\ UNCHANGED inflight
    /\ rendered' = NotRendered
    /\ UNCHANGED <<other, other_last, builtins, executions, unique>>

\* the event loop resumes the suspended call i, which runs to its end; the
\* hook is put back only when _evaluate returns
EndAeval(i) ==
    /\ inflight[i].status = "suspended"
    /\ \E c \in {aeval_end(evaluator, uuids, inflight[i])} :
          /\ evaluator' = c.self
          /\ excepthook' = IF c.outcome.how = "return" THEN inflight[i].hook ELSE excepthook
          /\ last' = CallRecord(inflight[i].code, EmptyScope, inflight[i].isolate,
                                EmptyScope, c)
          /\ inflight' = [inflight EXCEPT ![i].status = "ended",
                                          ![i].ended = Cardinality(EndedCalls) + 1,
                                          ![i].outcome = c.outcome,
                                          ![i].committed = CommittedBy(c)]
    /\ rendered' = NotRendered
    /\ UNCHANGED <<uuids, other, other_last, builtins, executions, unique>>

\* the snippets that run without suspension between the others
UnsuspendedCodes == {"1 + 1", "x = 1"}

NextConcurrent ==
    \/ \E code \in UnsuspendedCodes, isolate \in BOOLEAN :
          Aeval(code, SleepGlb, isolate, EmptyScope)
    \/ \E code \in SuspendingCodes, isolate \in BOOLEAN :
          BeginAeval(code, SleepGlb, isolate)
    \/ \E i \in 1..Len(inflight) : EndAeval(i)

SpecConcurrent == Init /\ [][NextConcurrent]_vars

(***************************************************************************)
(* Properties of AEvaluator.aeval.                                         *)
(***************************************************************************)
\* a call was made and `last` describes it
Made(call) == call.outcome.how # "none"

\* the wrapper function of the latest call was called
WrapperRan(call) == Made(call) /\ call.ran.how # "none"

\* name is bound to v in scope
Binds(scope, name, v) == name \in DOMAIN scope /\ scope[name] = v

\* the kind of the terminal statement of a snippet that has one
TerminalKind(code) == Last(Parse(Strip(code)).body).k

\* the snippet is blank or its terminal statement produces no value (a try
\* statement of Codes ends in an expression statement)
NoTerminalValue(code) ==
    \/ IsEmptyStr(Strip(code))
    \/ Parse(Strip(code)).body = <<>>
    \/ TerminalKind(code) \notin {"Expr", "Assign", "Try"}

\* C1: a successful non-isolated call whose terminal statement is the
\* single-target assignment x = v returns v, and x is bound to v in the
\* persisted scope that later non-isolated calls read.
C1_AssignReturnsAndPersists ==
    (/\ Made(last) /\ ~last.isolate /\ last.outcome.how = "return"
     /\ last.code = "x = 1")
    => /\ last.outcome.v = IntV(1)
       /\ "x" \in DOMAIN evaluator.session.locals
       /\ evaluator.session.locals["x"] = IntV(1)

\* C2: a call with isolate=true leaves the persisted global and local scope
\* of the Session exactly as it was, whether it returns or raises.
C2_IsolateLeavesScope ==
    [][last'.isolate =>
         /\ evaluator'.session.globals = evaluator.session.globals
         /\ evaluator'.session.locals = evaluator.session.locals
         /\ evaluator'.session.cache = evaluator.session.cache]_vars

\* an isolated `x = 1` returned 1 and the Session holds no binding of x
C2_Witness ==
    /\ last.isolate /\ last.code = "x = 1" /\ last.outcome = Returned(IntV(1))
    /\ "x" \notin DOMAIN evaluator.session.locals
    /\ "x" \notin DOMAIN evaluator.session.globals

\* C3: the same isolated call (same code, same overrides) made on two
\* evaluators with different histories ends the same way.
C3_IsolatedOutcomeIgnoresHistory ==
    (/\ Made(last) /\ Made(other_last)
     /\ last.isolate /\ other_last.isolate
     /\ last.code = other_last.code
     /\ last.glb = other_last.glb
     /\ last.additional_vars = other_last.additional_vars)
    => last.outcome = other_last.outcome

\* C4: a non-isolated call that raises merges nothing: the persisted scope
\* after it is the scope before it; the scope changes only in a
\* non-isolated call that returns.
C4_NoMergeOnError ==
    [][/\ (~last'.isolate /\ last'.outcome.how = "raise") =>
             /\ evaluator'.session.globals = evaluator.session.globals
             /\ evaluator'.session.locals = evaluator.session.locals
       /\ (\/ evaluator'.session.globals # evaluator.session.globals
           \/ evaluator'.session.locals # evaluator.session.locals) =>
             (~last'.isolate /\ last'.outcome.how = "return")]_vars

\* a non-isolated call bound x and then raised ValueError in the wrapper,
\* and the Session holds no binding of x and no trace of the run
C4_Witness ==
    /\ ~last.isolate /\ last.code = AssignThenRaise
    /\ last.outcome = Raised(Exc("ValueError", "snippet"))
    /\ last.ran.how = "raise"
    /\ "x" \notin DOMAIN evaluator.session.locals
    /\ evaluator.session.globals = EmptyScope

\* C5: an error raised inside the snippet and not caught by it reaches the
\* caller of aeval as that same error.
C5_SnippetErrorReachesCaller ==
    (Made(last) /\ last.ran.uncaught # NoExc) => last.outcome = Raised(last.ran.uncaught)

\* C6: a call yields the empty result exactly when its own snippet is blank
\* or ends in a statement that produces no value, whatever earlier calls
\* yielded.
C6_EmptyResultIffNoTerminalValue ==
    (Made(last) /\ last.outcome.how = "return")
    => (last.outcome.v = NoReturn <=> NoTerminalValue(last.code))

\* C7: a blank or whitespace-only snippet returns the empty result without
\* any parse, rewrite or execution step and without an error.
C7_BlankShortCircuit ==
    (Made(last) /\ IsEmptyStr(Strip(last.code)))
    => (last.outcome = Returned(NoReturn) /\ last.steps = <<>>)

\* C8: a snippet whose terminal statement is a plain expression returns the
\* value of that expression (None for an expression that evaluates to None),
\* and the empty result is returned only when no terminal value was produced.
C8_ExpressionValueReturned ==
    (Made(last) /\ last.outcome.how = "return")
    => /\ (last.code \in {"x", "None", "1 + 1"} /\ Len(last.ran.v.elts) = 3)
             => last.outcome.v = last.ran.v.elts[1]
       /\ last.outcome.v = NoReturn => NoTerminalValue(last.code)

\* C9: in a non-isolated call a name bound both by an override and by the
\* persisted scope has the override's value in the snippet.
C9_OverridesWin ==
    (/\ Made(last) /\ ~last.isolate /\ last.outcome.how = "return"
     /\ last.code = "x" /\ "x" \in DOMAIN last.additional_vars)
    => last.result = last.additional_vars["x"]

\* the latest call drew its code_hash: it did not end at the read of the
\* code_hash of the call before it
DrewId(call) == Made(call) /\ call.outcome # Raised(Exc("AttributeError", "aeval"))

\* C17: after a call the execution cache of the Session maps the id of
\* that call to a record of the snippet of that call, and the records of
\* earlier calls stay as they were.
C17_CacheMapsOwnId ==
    /\ [](DrewId(last)
            => /\ evaluator.code_hash \in DOMAIN evaluator.session.cache
               /\ evaluator.session.cache[evaluator.code_hash].code = last.code)
    /\ [][\A h \in DOMAIN evaluator.session.cache :
              /\ h \in DOMAIN evaluator'.session.cache
              /\ evaluator'.session.cache[h].code = evaluator.session.cache[h].code]_vars

\* C24: a call whose snippet raises no error and ends in a statement
\* without a handler, or in a conditional that takes no branch, leaves the
\* wrapper through the final exit point: it returns the empty result and,
\* when not isolated, the bindings of the earlier statements are in the
\* persisted scope.
C24_UnhandledEndsAtFinalExit ==
    (WrapperRan(last) /\ last.code \in UnhandledCodes /\ last.ran.how = "return")
    => /\ Len(last.ran.v.elts) = 2
       /\ last.outcome = Returned(NoReturn)
       /\ ~last.isolate
             => /\ \A name \in DOMAIN last.ran.v.elts[2].d :
                      Binds(evaluator.session.locals, name, last.ran.v.elts[2].d[name])
                /\ last.code \in {AssignThenPass, AssignThenIfFalse, AssignThenImport}
                      => Binds(evaluator.session.locals, "x", IntV(1))

\* a non-isolated `x = 1` followed by `import os` returned the empty
\* result and the Session holds x and os
C24_Witness ==
    /\ ~last.isolate /\ last.code = AssignThenImport
    /\ last.outcome = Returned(NoReturn)
    /\ Binds(evaluator.session.locals, "x", IntV(1))
    /\ Binds(evaluator.session.locals, "os", ModuleV("os"))

\* C27: the right-hand side of a rewritten terminal assignment, with one
\* target or with several, is evaluated exactly once: a snippet that sets
\* n = 0 and ends in an assignment of (n := n + 1) ends with n = 1, under
\* both rewriters.
C27_RhsEvaluatedOnce ==
    /\ (WrapperRan(last) /\ last.code \in CountedCodes)
          => /\ last.ran.how = "return"
             /\ Binds(Last(last.ran.v.elts).d, "n", IntV(1))
    /\ \A i \in 1..Len(executions) :
          executions[i].self.code \in CountedCodes
          => /\ executions[i].outcome.how = "return"
             /\ Binds(executions[i].self.locals, "n", IntV(1))

\* C26: the names bound in the persisted scope of the Session never
\* shrink: a call leaves every name that was bound in Session.globals and
\* Session.locals bound.
C26_PersistedNamesNeverShrink ==
    [][/\ DOMAIN evaluator.session.globals \subseteq DOMAIN evaluator'.session.globals
       /\ DOMAIN evaluator.session.locals \subseteq DOMAIN evaluator'.session.locals]_vars

\* a non-isolated `del x` ended with x gone from the scope it handed to the
\* Session, and the Session still holds x = 1
C26_Witness ==
    /\ ~last.isolate /\ last.code = DelX
    /\ last.outcome.how = "return" /\ last.ran.how = "return"
    /\ "x" \notin DOMAIN Last(last.ran.v.elts).d
    /\ Binds(evaluator.session.locals, "x", IntV(1))

(***************************************************************************)
(* Properties of concurrent calls of AEvaluator.aeval.                     *)
(***************************************************************************)
\* the names a snippet binds
BoundBy(code) == StoredNames(Parse(Strip(code)).body)

\* the persisted local scope after the calls p and q, made one after the
\* other from the evaluator p started with
SeriallyFirst(self, p) == aeval(self, DefaultHook, 0, p.code, SleepGlb, FALSE, EmptyScope).self

Serially(p, q) ==
    aeval(SeriallyFirst(p.before, p), DefaultHook, 0, q.code, SleepGlb, FALSE,
          EmptyScope).self.session.locals

\* the call q ran wholly while the call p was suspended, and nothing else
\* ran since p started
RanInside(p, q) ==
    /\ ~p.isolate /\ ~q.isolate
    /\ q.code_hash = p.code_hash + 1 /\ uuids = q.code_hash
    /\ p.outcome.how = "return" /\ q.outcome.how = "return"
    /\ q.ended < p.ended

\* C25: a non-isolated call that was suspended and then returns writes back
\* every name it was started with and did not rebind, at the value the name
\* had when the call started, whatever was committed to the Session while
\* it was suspended.
C25_StaleScopeCommitted ==
    [][\A i \in 1..Len(inflight) :
          (/\ inflight[i].status = "suspended"
           /\ inflight'[i].status = "ended"
           /\ ~inflight[i].isolate
           /\ inflight'[i].outcome.how = "return")
          => \A n \in DOMAIN inflight[i]._locals \ BoundBy(inflight[i].code) :
                Binds(evaluator'.session.locals, n, inflight[i]._locals[n])]_vars

\* two non-isolated calls were suspended together; the one that started
\* with x = 1 ended after the other had committed x = 2, and the Session
\* holds x = 1, which neither serial order of the two calls gives
C25_Witness ==
    \E i, j \in 1..Len(inflight) :
        /\ RanInside(inflight[i], inflight[j])
        /\ Binds(inflight[i]._locals, "x", IntV(1))
        /\ Binds(inflight[j].committed, "x", IntV(2))
        /\ Binds(evaluator.session.locals, "x", IntV(1))
        /\ ~Binds(Serially(inflight[i], inflight[j]), "x", IntV(1))
        /\ ~Binds(Serially(inflight[j], inflight[i]), "x", IntV(1))

\* C28: whenever no call of aeval is in flight, after calls that returned
\* and calls that raised, sys.excepthook is the hook that was installed
\* before the first call.
C28_HookRestoredAfterCalls ==
    (\A i \in 1..Len(inflight) : inflight[i].status = "ended")
    => excepthook = DefaultHook

YieldedBy(call) == call.ran.how = "return" /\ Len(call.ran.v.elts) = 3

\* the execution ended through an exit that carries a value
Yielded(ex) ==
    /\ ex.status = "ended" /\ ex.outcome.how = "return" /\ ~ex.self.empty_result

\* C11: the terminal multi-target assignment a = b = 7 yields the tuple
\* (7, 7), one element per target in target order, and binds a and b to 7,
\* under the rewriter of utils.py and under the rewriter of types.py.
C11_MultiTargetYieldsTuple ==
    /\ (WrapperRan(last) /\ last.code = MultiAssign)
          => /\ YieldedBy(last)
             /\ last.ran.v.elts[1] = TupleV(<<IntV(7), IntV(7)>>)
             /\ Binds(last.ran.v.elts[3].d, "a", IntV(7))
             /\ Binds(last.ran.v.elts[3].d, "b", IntV(7))
    /\ \A i \in 1..Len(executions) :
          executions[i].self.code = MultiAssign
          => /\ Yielded(executions[i])
             /\ executions[i].self.result = TupleV(<<IntV(7), IntV(7)>>)
             /\ Binds(executions[i].self.locals, "a", IntV(7))
             /\ Binds(executions[i].self.locals, "b", IntV(7))

\* the final binding of the loop target of a loop snippet that iterates
ForFinal(code) ==
    IF code = ForLoop THEN IntV(3) ELSE TupleV(<<IntV(1), IntV(2)>>)

\* C12: a terminal loop without an else clause and without a break yields
\* the final binding of its target, 3 for `for x in [1, 2, 3]` and (1, 2)
\* for the tuple target of `for a, b in [(1, 2)]`, under the rewriter of
\* utils.py and under the rewriter of types.py.
C12_LoopYieldsFinalBinding ==
    /\ (WrapperRan(last) /\ last.code \in {ForLoop, ForTuple})
          => (YieldedBy(last) /\ last.ran.v.elts[1] = ForFinal(last.code))
    /\ \A i \in 1..Len(executions) :
          executions[i].self.code \in {ForLoop, ForTuple}
          => /\ Yielded(executions[i])
             /\ executions[i].self.result = ForFinal(executions[i].self.code)

\* the branch of a snippet ending in a conditional that is taken: the test
\* of the snippets is a constant
TakenBranch(code) ==
    IF Truthy(Last(Parse(code).body).test.value)
    THEN Last(Parse(code).body).body
    ELSE Last(Parse(code).body).orelse

\* the value of the last statement of that branch, a constant expression
TakenValue(code) == Last(TakenBranch(code)).value.value

\* C13: a snippet ending in a conditional yields the value of the last
\* statement of the branch taken, with or without the other branch; with a
\* false condition and no else branch it ends at the exit point of the
\* empty result.  Under the rewriter of utils.py and under that of types.py.
C13_ConditionalYieldsTakenBranch ==
    /\ (WrapperRan(last) /\ last.code \in IfCodes)
          => IF TakenBranch(last.code) # <<>>
             THEN YieldedBy(last) /\ last.ran.v.elts[1] = TakenValue(last.code)
             ELSE last.ran.how = "return" /\ Len(last.ran.v.elts) = 2
    /\ \A i \in 1..Len(executions) :
          executions[i].self.code \in IfCodes
          => IF TakenBranch(executions[i].self.code) # <<>>
             THEN /\ Yielded(executions[i])
                  /\ executions[i].self.result = TakenValue(executions[i].self.code)
             ELSE /\ executions[i].status = "ended"
                  /\ executions[i].outcome.how = "return"
                  /\ executions[i].self.empty_result

\* the evaluator took the only branch of `if 1: 5` and the else branch of
\* `if 0: 5 else: 6`, and the engine fell through `if 0: 5`
C13_Witness ==
    /\ \/ last.code = IfTrue /\ YieldedBy(last) /\ last.ran.v.elts[1] = IntV(5)
       \/ last.code = IfElseFalse /\ YieldedBy(last) /\ last.ran.v.elts[1] = IntV(6)
    /\ \E i \in 1..Len(executions) :
          /\ executions[i].self.code = IfFalse
          /\ executions[i].status = "ended"
          /\ executions[i].self.empty_result

\* C19: when the terminal statement is a try statement with a finally
\* clause and its body raises an error no handler catches, the caller gets
\* that error and not a value of the rewritten finally clause, under the
\* rewriter of utils.py and under the rewriter of types.py.
C19_FinallyKeepsUserError ==
    /\ (WrapperRan(last) /\ last.code = TryFinally)
          => /\ last.ran.how = "raise"
             /\ last.outcome = Raised(Exc("ValueError", "snippet"))
    /\ \A i \in 1..Len(executions) :
          (executions[i].self.code = TryFinally /\ executions[i].status = "ended")
          => executions[i].outcome = Raised(Exc("ValueError", "snippet"))

\* C20: for a terminal try statement with handlers and neither else nor
\* finally, a body that ends without an error yields the value of its last
\* statement, also under a handler of a broad exception class, and a
\* handler's last value is yielded only when the body raised an error that
\* the handler caught.  Under the rewriter and the engine of types.py.
C20_TryPathDecidesExitValue ==
    \A i \in 1..Len(executions) :
        /\ executions[i].self.code \in {TryBroad, TryNarrow}
              => (Yielded(executions[i]) /\ executions[i].self.result = IntV(1))
        /\ executions[i].self.code = TryCaught
              => (Yielded(executions[i]) /\ executions[i].self.result = IntV(2))
        /\ executions[i].self.code = TryUncaught
              => executions[i].outcome = Raised(Exc("ValueError", "snippet"))

\* an exit node of the rewriter of types.py
IsExit(s) == s.k = "Raise" /\ s.exc.k = "Call" /\ s.exc.func = "EvaluatorExit"

RECURSIVE WithoutExits(_)
\* a statement without the exit nodes in its blocks
WithoutExitsIn(s) ==
    CASE s.k \in {"If", "For"} ->
            [s EXCEPT !.body = WithoutExits(@), !.orelse = WithoutExits(@)]
      [] s.k = "Try" ->
            [s EXCEPT !.body = WithoutExits(@),
                      !.handlers = [i \in 1..Len(@) |-> [@[i] EXCEPT !.body = WithoutExits(@)]],
                      !.orelse = WithoutExits(@), !.finalbody = WithoutExits(@)]
      [] OTHER -> s

\* the statements of a rewritten block that are not exit nodes, in order
WithoutExits(body) ==
    IF body = <<>> THEN <<>>
    ELSE IF IsExit(Head(body)) THEN WithoutExits(Tail(body))
    ELSE <<WithoutExitsIn(Head(body))>> \o WithoutExits(Tail(body))

\* the locals the snippet leaves when it is run as it was written
LocalsAsWritten(code, namespace) ==
    ExecBlock(Parse(code).body, ModuleEnv(EmptyScope, namespace), EmptyScope).loc

\* C21: the rewrite of a terminal assignment or import keeps the program
\* order: the rewritten module holds, apart from the exit nodes, the
\* statements of the snippet in their order and each in its block, and the
\* execution leaves the bindings the snippet leaves when run as written.
C21_ProgramOrderKept ==
    \A i \in 1..Len(executions) :
        (executions[i].self.code \in OrderCodes /\ executions[i].status # "rejected")
        => /\ WithoutExits(types_transform_module(Parse(executions[i].self.code)).node.body)
                 = Parse(executions[i].self.code).body
           /\ executions[i].outcome.how = "return"
           /\ executions[i].self.locals = LocalsAsWritten(executions[i].self.code, builtins)

\* C22: a terminal augmented assignment x += 1 with x bound to 2
\* beforehand, by an override or by the statement before it, yields 3 and
\* leaves x bound to 3, as x = x + 1 does, under the rewriter of utils.py
\* and under the rewriter of types.py.
C22_AugAssignDesugared ==
    /\ (/\ WrapperRan(last)
         /\ \/ last.code = AssignThenAug
            \/ last.code = AugOnly /\ last.isolate /\ "x" \in DOMAIN last.additional_vars)
          => /\ YieldedBy(last)
             /\ last.ran.v.elts[1] = IntV(3)
             /\ Binds(last.ran.v.elts[3].d, "x", IntV(3))
    /\ \A i \in 1..Len(executions) :
          executions[i].self.code = AssignThenAug
          => /\ Yielded(executions[i])
             /\ executions[i].self.result = IntV(3)
             /\ Binds(executions[i].self.locals, "x", IntV(3))

\* the value of the return statement a snippet of ReturnCodes reaches
ReturnedValue(code) ==
    CASE code = RetFive -> IntV(5)
      [] code = RetTuple -> TupleV(<<IntV(1), IntV(2)>>)
      [] code \in {RetEarly, RetNested, RetInTry} -> IntV(1)
      [] OTHER -> NoneV

\* the snippet of the call was parsed and given to the rewriter
Rewritten(call) == Made(call) /\ \E j \in 1..Len(call.steps) : call.steps[j] = "transform"

\* C23: a return statement outside a function definition, at any depth,
\* ends the evaluation with its value and the scope it was reached in, no
\* later statement runs (x stays 1 in the snippet that returns early), and
\* the return statement of a nested function definition is left as it was.
\* Under the rewriter of utils.py and under the rewriter of types.py.
C23_ReturnsEndEvaluation ==
    /\ (Rewritten(last) /\ last.code \in ReturnCodes)
          => /\ last.ran.how = "return"
             /\ last.code # RetBare
                   => (YieldedBy(last) /\ last.ran.v.elts[1] = ReturnedValue(last.code))
             /\ last.code = RetEarly => Binds(last.ran.v.elts[3].d, "x", IntV(1))
             /\ last.code = RetNested
                   => Binds(last.ran.v.elts[3].d, "f",
                            DefV("f", Parse(RetNested).body[1].body))
    /\ \A i \in 1..Len(executions) :
          executions[i].self.code \in ReturnCodes
          => /\ executions[i].status = "ended"
             /\ executions[i].outcome.how = "return"
             /\ executions[i].self.code # RetBare
                   => /\ ~executions[i].self.empty_result
                      /\ executions[i].self.result = ReturnedValue(executions[i].self.code)
             /\ executions[i].self.code = RetEarly
                   => Binds(executions[i].self.locals, "x", IntV(1))
             /\ executions[i].self.code = RetNested
                   => Binds(executions[i].self.locals, "f",
                            DefV("f", Parse(RetNested).body[1].body))

(***************************************************************************)
(* Properties of AEvaluator.format_tb.                                     *)
(***************************************************************************)
\* C14: format_tb never raises: for every exception and traceback,
\* including frames whose filename matches no cached execution and frames
\* whose line number has no line in the cached snippet, it returns a text.
C14_RenderingNeverRaises == rendered.made => rendered.out.exc = NoExc

\* the traceback of an error raised at line `lineno` of the snippet of the
\* latest call, as format_tb gets it without the frames above aeval
SnippetTraceback(self, lineno) ==
    <<AevalFrame, EvaluateFrame, SnippetFrame(self.code_hash, lineno, self.function_name)>>

\* C15: in the rendered trace of an error raised inside the snippet of the
\* latest non-isolated call no frame of aeval, _evaluate or the wrapper
\* function appears, and the frame of the snippet shows the placeholder
\* filename and the text of the submitted snippet at its line number.
C15_TraceHidesInternals ==
    (/\ rendered.made /\ WrapperRan(last) /\ ~last.isolate
     /\ last.outcome.how = "raise"
     /\ rendered.tb = SnippetTraceback(evaluator, 2)
     /\ rendered.out.exc = NoExc)
    => /\ \A i \in 1..Len(rendered.out.frames) :
             /\ rendered.out.frames[i].name
                   \notin {"aeval", "_evaluate", evaluator.function_name}
             /\ rendered.out.frames[i].filename = Placeholder
             /\ rendered.out.frames[i].line
                   = Splitlines(last.code)[rendered.out.frames[i].lineno]

\* what format_tb gives for the same traceback and a runtime error
RuntimeRendering(self, tb) ==
    format_tb(self, "ValueError", ExceptionValue("ValueError", File("")), tb)

\* the traceback ends in the code of the latest execution
EndsInLatest(self, tb) ==
    /\ "code_hash" \in DOMAIN self /\ tb # <<>>
    /\ Last(tb).filename = CodeFile(self.code_hash)

\* C16: for a SyntaxError located in the latest execution the rendered
\* trace has one frame fewer than that of a runtime error with the same
\* traceback; for another error type or an older execution it has as many.
C16_SyntaxErrorDropsFrame ==
    (rendered.made /\ RuntimeRendering(evaluator, rendered.tb).exc = NoExc)
    => /\ rendered.out.exc = NoExc
       /\ Len(rendered.out.frames) =
             IF /\ rendered.exc_value.type = "SyntaxError"
                /\ EndsInLatest(evaluator, rendered.tb)
                /\ rendered.exc_value.filename = Last(rendered.tb).filename
             THEN Len(RuntimeRendering(evaluator, rendered.tb).frames) - 1
             ELSE Len(RuntimeRendering(evaluator, rendered.tb).frames)

(***************************************************************************)
(* Properties of uniquify_name.                                            *)
(***************************************************************************)
\* name with k underscores before it
RECURSIVE Underscored(_, _)
Underscored(name, k) == IF k = 0 THEN name ELSE "_" \o Underscored(name, k - 1)

\* C18: uniquify_name(name, namespace) returns, for every finite namespace,
\* a name that is not in the namespace: name with the smallest number
\* k >= 0 of underscores before it that makes it absent.
C18_UniquifyAddsFewestUnderscores ==
    /\ <>unique.done
    /\ [](unique.done
            => /\ unique.result = uniquify_name(unique.name, unique.namespace)
               /\ unique.result \notin unique.namespace
               /\ \E k \in 0..Cardinality(unique.namespace) :
                     /\ unique.result = Underscored(unique.name, k)
                     /\ \A j \in 0..(k - 1) :
                           Underscored(unique.name, j) \in unique.namespace)

\* "x" with "x" and "_x" taken came back as "__x"
C18_Witness ==
    /\ unique.done
    /\ unique.name = "x" /\ unique.namespace = {"x", "_x"}
    /\ unique.result = "__x"

====
